---- MODULE Spec2Model ----
(***************************************************************************)
(* Model of the maskr.io Penpot plugin: the job store (processingStore),   *)
(* the background-removal pipeline (async generator `process`), its caller *)
(* in App.vue (processRemoveBackground / handleCancelProcessing), the host *)
(* bridge's export bookkeeping, the error handler, the retry utility       *)
(* (withRetry / sleep / calculateDelay / isRetryableError) and the cleanup *)
(* utilities (withTimeout, createCleanupRegistry).                         *)
(*                                                                         *)
(* JavaScript is single threaded: an action of this model is one macrotask *)
(* together with the microtasks it triggers, i.e. the code that runs from  *)
(* one suspension point (await of a host message, a fetch, a timer) to the *)
(* next.                                                                   *)
(***************************************************************************)
EXTENDS Integers, Sequences, FiniteSets, TLC

----------------------------------------------------------------------------
(* Bounds *)

\* largest number of images in one selection; image ids are 1..MaxItems
MaxItems == 2
\* number of batches (AbortControllers created by startBatch) in one run
MaxBatches == 2
\* largest maxAttempts option explored for withRetry
MaxAttemptsBound == 3
\* number of batches in the runs with overlapping pipelines (SpecOverlap)
MaxOverlapBatches == 3
\* longest history explored when the store's operations are called directly
MaxHistory == 2
\* largest batch size for which the caller's mapping is tabulated
MaxBatchSize == 8
\* number of distinct cleanup functions; they are named 1..MaxFns
MaxFns == 2
\* number of register calls on the cleanup registry in one run
MaxRegistered == 3
\* number of cleanup() calls on the cleanup registry in one run
MaxCleanupCalls == 2
\* largest autoClearMs option explored for the error handler; 0 is "not configured"
MaxAutoClearMs == 2
\* the clock of the host's timers runs over 0..MaxTime
MaxTime == 4
\* number of clearError / setError / handleError calls on one error handler
MaxHandlerCalls == 3
\* number of startLogin calls in one run; login attempts are named 1..MaxLogins
MaxLogins == 2

----------------------------------------------------------------------------
(* Errors.  An error value is named by an id; ErrInfo gives the properties *)
(* the code inspects: its class, DOMException name, ApiError status, the   *)
(* keywords its message contains verbatim (words) and the keywords its     *)
(* lower-cased message contains (lwords).                                  *)

Err(cls, name, status, words, lwords) ==
  [cls |-> cls, name |-> name, status |-> status, words |-> words, lwords |-> lwords]

NoStatus == -1

\* the error values of the repository's code and tests, one id each
BaseErrors ==
  {"Abort", "ApiAuth", "ApiCredits", "ApiServer", "ApiNetwork", "DownloadFailed",
   "DownloadNetwork", "FetchFailed", "Timeout", "ImageProcessing", "HostError",
   "ExportPending", "NetworkDown", "Server503", "Unauthorized", "UnauthorizedConn",
   "RequestTimeout", "ComponentUnmounted", "ThrownString"}

\* new AppError(error.message, code, userMessage, recoverable, error): the value
\* AppError.from builds from a value that is not an AppError
AppErrorOf(e) == "AppError:" \o e

AppErrors == { AppErrorOf(e) : e \in BaseErrors }

\* error instanceof AppError
IsAppError(e) == e \in AppErrors

\* AppError.originalError
OriginalError(a) == CHOOSE e \in BaseErrors : AppErrorOf(e) = a

\* error.message, named by the value it was first the message of; an AppError
\* carries the message of the value it was built from
MessageOf(e) == IF IsAppError(e) THEN OriginalError(e) ELSE e

RECURSIVE ErrInfo(_)
ErrInfo(e) ==
  CASE e = "Abort" ->           \* DOMException('Processing cancelled' | 'Aborted', 'AbortError')
         Err("DOMException", "AbortError", NoStatus, {}, {})
    [] e = "ApiAuth" ->         \* ApiError('Not authenticated' | 'Session expired. ...', 401)
         Err("ApiError", "ApiError", 401, {}, {})
    [] e = "ApiCredits" ->      \* ApiError('Insufficient credits. ...', 402)
         Err("ApiError", "ApiError", 402, {}, {})
    [] e = "ApiServer" ->       \* ApiError('Request failed: Internal Server Error', 500)
         Err("ApiError", "ApiError", 500, {}, {})
    [] e = "ApiNetwork" ->      \* ApiError('Network error. Please check your connection.', 0)
         Err("ApiError", "ApiError", 0, {"connection"}, {"network", "connection"})
    [] e = "DownloadFailed" ->  \* ApiError('Failed to download mask', 404)
         Err("ApiError", "ApiError", 404, {}, {})
    [] e = "DownloadNetwork" -> \* ApiError('Failed to download mask', 0)
         Err("ApiError", "ApiError", 0, {}, {})
    [] e = "FetchFailed" ->     \* TypeError('Failed to fetch'), raised by fetch
         Err("TypeError", "TypeError", NoStatus, {"fetch"}, {"fetch"})
    [] e = "Timeout" ->         \* TimeoutError('Operation timed out after 10000ms')
         Err("TimeoutError", "TimeoutError", NoStatus, {}, {})
    [] e = "ImageProcessing" -> \* ImageProcessingError
         Err("ImageProcessingError", "ImageProcessingError", NoStatus, {}, {})
    [] e = "HostError" ->       \* Error(message of the host's 'error' message)
         Err("Error", "Error", NoStatus, {}, {})
    [] e = "ExportPending" ->   \* Error('Export already pending for <id>')
         Err("Error", "Error", NoStatus, {}, {})
    [] e = "NetworkDown" ->     \* Error('Network connection failed')
         Err("Error", "Error", NoStatus, {"connection"}, {"network", "connection"})
    [] e = "Server503" ->       \* Error('Server returned 503')
         Err("Error", "Error", NoStatus, {"503"}, {"503"})
    [] e = "Unauthorized" ->    \* Error('401 Unauthorized')
         Err("Error", "Error", NoStatus, {"401"}, {"401", "unauthorized"})
    [] e = "UnauthorizedConn" -> \* Error('401 Unauthorized: connection refused')
         Err("Error", "Error", NoStatus, {"401", "connection"},
             {"401", "unauthorized", "connection"})
    [] e = "RequestTimeout" ->  \* Error('Request timeout')
         Err("Error", "Error", NoStatus, {"timeout"}, {"timeout"})
    [] e = "ComponentUnmounted" -> \* Error('Component unmounted')
         Err("Error", "Error", NoStatus, {}, {})
    [] e = "ThrownString" ->    \* throw 'boom': a value that is not an Error
         Err("string", "none", NoStatus, {}, {})
    [] IsAppError(e) ->         \* AppError: class and name of its own, message copied
         Err("AppError", "AppError", NoStatus,
             ErrInfo(OriginalError(e)).words, ErrInfo(OriginalError(e)).lwords)
    [] OTHER ->
         Err("Error", "Error", NoStatus, {}, {})

\* error instanceof Error
IsError(e) == ErrInfo(e).cls # "string"

\* error instanceof DOMException && error.name === 'AbortError'
IsAbortError(e) == ErrInfo(e).cls = "DOMException" /\ ErrInfo(e).name = "AbortError"

mapErrorToDetails(e) ==
  IF IsAbortError(e) THEN [code |-> "CANCELLED", message |-> "Operation was cancelled", recoverable |-> TRUE]
  ELSE IF ErrInfo(e).cls = "ApiError" THEN
    (IF ErrInfo(e).status = 401
       THEN [code |-> "SESSION_EXPIRED", message |-> "Your session has expired", recoverable |-> TRUE]
     ELSE IF ErrInfo(e).status = 402
       THEN [code |-> "INSUFFICIENT_CREDITS", message |-> "Insufficient credits", recoverable |-> TRUE]
     ELSE IF ErrInfo(e).status = 0
       THEN [code |-> "NETWORK_ERROR", message |-> "Network error", recoverable |-> TRUE]
     ELSE [code |-> "PROCESSING_FAILED", message |-> MessageOf(e), recoverable |-> TRUE])
  ELSE IF ErrInfo(e).cls = "TimeoutError"
    THEN [code |-> "TIMEOUT", message |-> "The operation timed out", recoverable |-> TRUE]
  ELSE IF ErrInfo(e).cls = "ImageProcessingError"
    THEN [code |-> "PROCESSING_FAILED", message |-> "Failed to process image", recoverable |-> TRUE]
  ELSE IF IsError(e) THEN
    (IF "network" \in ErrInfo(e).words \/ "fetch" \in ErrInfo(e).words
       THEN [code |-> "NETWORK_ERROR", message |-> "Network error", recoverable |-> TRUE]
     ELSE [code |-> "UNKNOWN", message |-> MessageOf(e), recoverable |-> TRUE])
  ELSE [code |-> "UNKNOWN", message |-> "An unexpected error occurred", recoverable |-> TRUE]

\* AppError.from
AppErrorFrom(e) == IF IsAppError(e) THEN e ELSE AppErrorOf(e)

\* AppError.code: the code AppError.from took from the classifier
AppErrorCode(a) == mapErrorToDetails(OriginalError(a)).code

isRecoverableError(e) == mapErrorToDetails(e).recoverable

isCancellationError(e) ==
  \/ IsAbortError(e)
  \/ IsAppError(e) /\ AppErrorCode(e) = "CANCELLED"

isAuthError(e) ==
  \/ ErrInfo(e).cls = "ApiError" /\ ErrInfo(e).status = 401
  \/ IsAppError(e) /\ AppErrorCode(e) = "SESSION_EXPIRED"

isCreditsError(e) ==
  \/ ErrInfo(e).cls = "ApiError" /\ ErrInfo(e).status = 402
  \/ IsAppError(e) /\ AppErrorCode(e) = "INSUFFICIENT_CREDITS"

----------------------------------------------------------------------------
(* Small helpers *)

\* Math.round(x) for x = num / den >= 0: floor(x + 1/2)
Round(num, den) == (2 * num + den) \div (2 * den)

\* Array.prototype.find over indices: the least index of K, 0 if K is empty
FirstIndex(K) == IF K = {} THEN 0 ELSE CHOOSE k \in K : \A m \in K : k <= m

IsPrefix(p, s) == Len(p) <= Len(s) /\ \A k \in 1..Len(p) : p[k] = s[k]

IsSuffix(t, s) ==
  Len(t) <= Len(s) /\ \A k \in 1..Len(t) : t[k] = s[Len(s) - Len(t) + k]

ItemIds == 1..MaxItems

\* selections the host can report: non-empty lists of distinct image ids
Selections ==
  { s \in UNION { [1..n -> ItemIds] : n \in 1..MaxItems } :
      \A a, b \in DOMAIN s : a # b => s[a] # s[b] }

NoError == "none"

----------------------------------------------------------------------------
(* State *)

VARIABLES
  store,          \* processingStore: [jobs, history, abortController, status]
  aborted,        \* AbortControllers whose signal.aborted is true
  nextCtl,        \* number of AbortControllers created by startBatch so far
  currentView,    \* App.vue currentView
  authToken,      \* auth state: TRUE iff getToken() returns a token
  errorState,     \* useErrorHandler errorState + hasError
  autoClearTimeout, \* TRUE iff the error handler's auto-clear timer is armed
  pendingExports, \* usePenpot pendingExports: ids in insertion order
  runs,           \* one processRemoveBackground invocation per batch
  retry,          \* one withRetry call (retry utility)
  controller,     \* useProcessingController: [abortController, isProcessing, created, aborted]
  lastOp,         \* the last operation called directly on the store or the controller
  registry,       \* one cleanup registry (createCleanupRegistry) and what its functions saw
  timeoutCall,    \* one withTimeout call
  errorHandler,   \* one useErrorHandler instance called directly, with the host's timers
  login,          \* useAuth: the auth state, the login attempts, their sockets and timers
  host            \* the plugin host as the bridge sees it: mounted, requests it has answered

vars == <<store, aborted, nextCtl, currentView, authToken, errorState,
          autoClearTimeout, pendingExports, runs, retry, controller, lastOp,
          registry, timeoutCall, errorHandler, login, host>>

sysVars == <<store, aborted, nextCtl, currentView, authToken, errorState,
             autoClearTimeout, pendingExports, runs, controller, lastOp,
             registry, timeoutCall, errorHandler, login, host>>

----------------------------------------------------------------------------
(* processingStore.  The operators take and return the store record.       *)
(* A job carries the field `batch` (the controller of the batch that       *)
(* created it) and a history entry copies it: the code tells jobs of       *)
(* different batches apart by object identity and time stamps, which are   *)
(* not modelled.                                                           *)

NoController == 0

InitialStore ==
  [jobs |-> << >>, history |-> << >>, abortController |-> NoController, status |-> "idle"]

\* jobs.value.find((j) => j.id === id)
JobIndex(s, id) == FirstIndex({ k \in 1..Len(s.jobs) : s.jobs[k].id = id })

currentJobIndex(s) == FirstIndex({ k \in 1..Len(s.jobs) : s.jobs[k].status = "processing" })

completedCount(s) == Cardinality({ k \in 1..Len(s.jobs) : s.jobs[k].status = "completed" })

\* an aggregate that counts completed jobs only
overallProgress_completedOnly(s) ==
  IF Len(s.jobs) = 0 THEN 0
  ELSE Round(completedCount(s) * 100, Len(s.jobs))

overallProgress(s) ==
  IF Len(s.jobs) = 0 THEN 0
  ELSE LET total == Len(s.jobs)
           current == IF currentJobIndex(s) = 0 THEN 0 ELSE s.jobs[currentJobIndex(s)].progress
       IN  Round(completedCount(s) * 100 + current, total)

canCancel(s) == s.status = "processing" /\ s.abortController # NoController

startBatch(s, items, ctl) ==
  [s EXCEPT
     !.jobs = [k \in 1..Len(items) |->
                 [id |-> items[k], batch |-> ctl, status |-> "pending",
                  progress |-> 0, stage |-> "Queued", error |-> NoError]],
     !.abortController = ctl,
     !.status = "processing"]

updateJobProgress(s, id, progress, stage) ==
  LET k == JobIndex(s, id)
  IN  IF k = 0 THEN s
      ELSE [s EXCEPT !.jobs[k] =
              [@ EXCEPT !.status = IF @ = "pending" THEN "processing" ELSE @,
                        !.progress = progress,
                        !.stage = stage]]

HistoryItem(job, status, error) ==
  [id |-> job.id, batch |-> job.batch, status |-> status, error |-> error]

completeJob(s, id) ==
  LET k == JobIndex(s, id)
  IN  IF k = 0 THEN s
      ELSE [s EXCEPT
              !.jobs[k] = [@ EXCEPT !.status = "completed", !.progress = 100, !.stage = "Done"],
              !.history = <<HistoryItem(s.jobs[k], "completed", NoError)>> \o @]

failJob(s, id, error) ==
  LET k == JobIndex(s, id)
  IN  IF k = 0 THEN s
      ELSE [s EXCEPT
              !.jobs[k] = [@ EXCEPT !.status = "failed", !.stage = "Failed", !.error = error],
              !.history = <<HistoryItem(s.jobs[k], "failed", error)>> \o @]

\* the loop body of cancel() for jobs k..Len(jobs), in list order
RECURSIVE CancelJobsFrom(_, _)
CancelJobsFrom(s, k) ==
  IF k > Len(s.jobs) THEN s
  ELSE IF s.jobs[k].status \in {"pending", "processing"}
    THEN CancelJobsFrom(
           [s EXCEPT
              !.jobs[k] = [@ EXCEPT !.status = "cancelled", !.stage = "Cancelled"],
              !.history = <<HistoryItem(s.jobs[k], "cancelled", NoError)>> \o @],
           k + 1)
    ELSE CancelJobsFrom(s, k + 1)

\* a cancel() that leaves the overall status alone
cancel_keepsStatus(s) ==
  IF s.abortController = NoController THEN s
  ELSE CancelJobsFrom(s, 1)

\* cancel(): the store part; the controller it aborts is AbortedBy(s)
cancel(s) ==
  IF s.abortController = NoController THEN s
  ELSE CancelJobsFrom([s EXCEPT !.status = "cancelled"], 1)

AbortedBy(s) == IF s.abortController = NoController THEN {} ELSE {s.abortController}

\* a finish() that also forgets the jobs
finish_clearsJobs(s) ==
  [s EXCEPT !.jobs = << >>, !.abortController = NoController, !.status = "idle"]

finish(s) == [s EXCEPT !.abortController = NoController, !.status = "idle"]

reset(s) == [s EXCEPT !.jobs = << >>, !.abortController = NoController, !.status = "idle"]

----------------------------------------------------------------------------
(* The application state as one record, so that the handlers of App.vue,   *)
(* which call one another, compose as functions.                           *)

NoErrorState == [message |-> "none", code |-> "none", recoverable |-> TRUE, hasError |-> FALSE]

\* events is the trace of the pipeline as its caller observes it: the progress
\* events, the yields, and the consumer's requests for the next result;
\* timedOut tells that the request-timeout timer of a remote call fired;
\* progressLog holds, per progress event, the item and the value the caller
\* hands to updateJobProgress; exportRequests holds the ids of the
\* 'export-image' messages the run sent to the host
IdleRun ==
  [pc |-> "idle", items |-> << >>, i |-> 0, yielded |-> << >>,
   lastEvent |-> [item |-> 0, stage |-> "none"], outcome |-> "none", attempts |-> 0,
   events |-> << >>, timedOut |-> FALSE, progressLog |-> << >>, exportRequests |-> << >>]

Cur ==
  [store |-> store, aborted |-> aborted, view |-> currentView, token |-> authToken,
   err |-> errorState, timer |-> autoClearTimeout, pend |-> pendingExports, runs |-> runs]

Set(S) ==
  /\ store' = S.store
  /\ aborted' = S.aborted
  /\ currentView' = S.view
  /\ authToken' = S.token
  /\ errorState' = S.err
  /\ autoClearTimeout' = S.timer
  /\ pendingExports' = S.pend
  /\ runs' = S.runs

\* useErrorHandler.clearError
clearError(S) == [S EXCEPT !.timer = FALSE, !.err = NoErrorState]

\* App.vue handleSignOut: auth.logout(), currentView = 'login', clearError()
handleSignOut(S) == clearError([S EXCEPT !.token = FALSE, !.view = "login"])

\* useErrorHandler.handleError with the callbacks processRemoveBackground passes
\* (onCreditsError opens the pricing page: no state); autoClearMs is 5000
handleError(S, e) ==
  IF isCancellationError(e) THEN S
  ELSE LET d  == mapErrorToDetails(e)
           S1 == [S EXCEPT !.timer = FALSE,
                           !.err = [message |-> d.message, code |-> d.code,
                                    recoverable |-> d.recoverable, hasError |-> TRUE]]
           S2 == IF isAuthError(e) THEN handleSignOut(S1) ELSE S1
       IN  IF d.recoverable THEN [S2 EXCEPT !.timer = TRUE] ELSE S2

\* a pipeline that records the error and goes on
Catch_continue(S, r, e) ==
  [S EXCEPT !.runs[r].outcome = e]

\* the catch block of processRemoveBackground, entered by run r with error e
\* (every error of the model is an instance of Error)
Catch(S, r, e) ==
  LET k  == currentJobIndex(S.store)
      s1 == IF k # 0 THEN failJob(S.store, S.store.jobs[k].id, e) ELSE S.store
      S1 == [S EXCEPT !.store = finish(s1),
                      !.view = "main",
                      !.runs[r].pc = "done",
                      !.runs[r].outcome = e]
  IN  handleError(S1, e)

\* a mapping that reports the share of the batch still to do
ProgressPercent_remaining(current, total) == Round(100 * (total - current), total)

\* Math.round((progress.current / progress.total) * 100)
ProgressPercent(current, total) == Round(100 * current, total)

\* onProgress as processRemoveBackground passes it to the pipeline
EmitProgress(S, r, current, stage) ==
  LET run == S.runs[r]
      pct == ProgressPercent(current, Len(run.items))
  IN  [S EXCEPT
         !.store = updateJobProgress(@, run.items[run.i], pct, stage),
         !.runs[r].lastEvent = [item |-> run.i, stage |-> stage],
         !.runs[r].events = Append(@, [item |-> run.i, stage |-> stage]),
         !.runs[r].progressLog = Append(@, [item |-> run.i, value |-> pct])]

\* an exportImage without the check for a pending export of the same id
exportImage_noPendingCheck(S, r) ==
  LET id == S.runs[r].items[S.runs[r].i]
  IN  [S EXCEPT !.pend = Append(@, id), !.runs[r].pc = "exporting",
                !.runs[r].exportRequests = Append(@, id)]

\* usePenpot.exportImage as awaited by the pipeline
exportImage(S, r) ==
  LET id == S.runs[r].items[S.runs[r].i]
  IN  IF \E k \in 1..Len(S.pend) : S.pend[k] = id
        THEN Catch(S, r, "ExportPending")
        ELSE [S EXCEPT !.pend = Append(@, id), !.runs[r].pc = "exporting",
                       !.runs[r].exportRequests = Append(@, id)]

\* pipeline: top of the loop body for item i, up to the await of the export
BeginItem(S, r, i) ==
  LET S1 == [S EXCEPT !.runs[r].i = i]
  IN  IF r \in S.aborted THEN Catch(S1, r, "Abort")
      ELSE exportImage(EmitProgress(S1, r, i - 1, "exporting"), r)

\* a request() that sends the request whatever getToken() returns
CallRemoveBackground_noTokenCheck(S, r) ==
  [S EXCEPT !.runs[r].pc = "processing", !.runs[r].attempts = 1]

\* api.removeBackground -> request(): fails at once without a token
CallRemoveBackground(S, r) ==
  IF ~S.token THEN Catch([S EXCEPT !.runs[r].attempts = 1], r, "ApiAuth")
  ELSE [S EXCEPT !.runs[r].pc = "processing", !.runs[r].attempts = 1]

\* pipeline: from the export's result to the await of removeBackground
AfterExport(S, r) ==
  IF r \in S.aborted THEN Catch(S, r, "Abort")
  ELSE CallRemoveBackground(EmitProgress(S, r, S.runs[r].i - 1, "processing"), r)

\* the downloading stage started without its progress event
AfterRemoveBackground_noEvent(S, r) ==
  IF r \in S.aborted THEN Catch(S, r, "Abort")
  ELSE [S EXCEPT !.runs[r].pc = "downloading", !.runs[r].attempts = 1]

\* pipeline: from removeBackground's result to the await of downloadMask
AfterRemoveBackground(S, r) ==
  IF r \in S.aborted THEN Catch(S, r, "Abort")
  ELSE [EmitProgress(S, r, S.runs[r].i - 1, "downloading")
          EXCEPT !.runs[r].pc = "downloading", !.runs[r].attempts = 1]

\* pipeline: from downloadMask's result to the await of applyMaskToImage
AfterDownload(S, r) ==
  IF r \in S.aborted THEN Catch(S, r, "Abort")
  ELSE [EmitProgress(S, r, S.runs[r].i - 1, "applying") EXCEPT !.runs[r].pc = "applying"]

\* the body of the for-await loop: completeJob and createImageFromData
\* (a message to the host, no state of the UI)
ConsumeResult(S, r, id) ==
  [S EXCEPT !.store = completeJob(@, id),
            !.runs[r].events = Append(@, [item |-> S.runs[r].i, stage |-> "next"])]

\* the generator has returned: finish(), then await auth.refreshAccountInfo()
GeneratorReturned(S, r) ==
  [S EXCEPT !.store = finish(@), !.runs[r].pc = "refreshing", !.runs[r].outcome = "completed"]

\* a wrong result id: always the first image's
ResultImageId_first(run) == run.items[1]

\* imageId of the ProcessingResult the generator yields for the current item
ResultImageId(run) == run.items[run.i]

\* a generator that goes on to the next item without yielding
AfterApply_noYield(S, r) ==
  LET run == S.runs[r]
      S1  == EmitProgress(S, r, run.i, "complete")
  IN  IF run.i < Len(run.items) THEN BeginItem(S1, r, run.i + 1)
      ELSE GeneratorReturned(S1, r)

\* pipeline: from applyMaskToImage's result through the yield, the consumer's
\* loop body and the next iteration, up to the next await
AfterApply(S, r) ==
  LET run == S.runs[r]
      id  == ResultImageId(run)
      S1  == EmitProgress(S, r, run.i, "complete")
      S2  == [S1 EXCEPT !.runs[r].yielded = Append(@, id),
                        !.runs[r].events = Append(@, [item |-> run.i, stage |-> "yield"])]
      S3  == ConsumeResult(S2, r, id)
  IN  IF run.i < Len(run.items) THEN BeginItem(S3, r, run.i + 1)
      ELSE GeneratorReturned(S3, r)

\* an entry that is never deleted
RemovePending_keeps(pend, id) == pend

\* pendingExports.delete(id)
RemovePending(pend, id) == SelectSeq(pend, LAMBDA x : x # id)

CurrentId(S, r) == S.runs[r].items[S.runs[r].i]

\* the run awaiting the export of id
RunOf(S, id) ==
  CHOOSE r \in DOMAIN S.runs : S.runs[r].pc = "exporting" /\ CurrentId(S, r) = id

\* host 'error' message: every pending export is rejected, in insertion order
RECURSIVE RejectAll(_, _)
RejectAll(S, ids) ==
  IF ids = << >> THEN S
  ELSE RejectAll(Catch(S, RunOf(S, Head(ids)), "HostError"), Tail(ids))

----------------------------------------------------------------------------
(* Actions of the application *)

\* what the try block of request() can raise: the ApiError of a 401 or a 5xx
\* response, fetch's TypeError (network failure), or fetch's AbortError (its
\* signal was aborted)
RemoveBackgroundErrors == {"ApiAuth", "ApiServer", "FetchFailed", "Abort"}

\* what the try block of downloadMask() can raise
DownloadMaskErrors == {"DownloadFailed", "FetchFailed", "Abort"}

\* a request that only listens to its own timeout controller
combineAbortSignals_timeoutOnly(a, b) == b

\* combineAbortSignals(signal, timeoutController.signal): the combined signal
\* is aborted as soon as one of the two is
combineAbortSignals(a, b) == a \/ b

\* the signal handed to fetch by the remote call run r awaits
RequestSignalAborted(r) == combineAbortSignals(r \in aborted, runs[r].timedOut)

\* the catch block of request() and of downloadMask(): an ApiError and an
\* AbortError are rethrown as they are, anything else becomes the network error
RethrowRequestError(e, networkError) ==
  IF ErrInfo(e).cls = "ApiError" THEN e
  ELSE IF IsAbortError(e) THEN e
  ELSE networkError

\* handleLogin when auth.startLogin() succeeds
Login ==
  /\ currentView = "login"
  /\ Set([clearError(Cur) EXCEPT !.token = TRUE, !.view = "main"])
  /\ UNCHANGED <<nextCtl, retry, controller, lastOp, registry, timeoutCall, errorHandler, login, host>>

\* MainView's sign-out button
SignOut ==
  /\ currentView = "main"
  /\ Set(handleSignOut(Cur))
  /\ UNCHANGED <<nextCtl, retry, controller, lastOp, registry, timeoutCall, errorHandler, login, host>>

\* processRemoveBackground(images), from the click to the first await
ProcessRemoveBackground(images) ==
  /\ currentView = "main"
  /\ Len(images) > 0
  /\ LET r  == nextCtl + 1
         S1 == clearError([Cur EXCEPT !.view = "processing"])
         S2 == [S1 EXCEPT !.store = startBatch(@, images, r),
                          !.runs[r] = [IdleRun EXCEPT !.items = images]]
     IN  Set(BeginItem(S2, r, 1))
  /\ nextCtl' = nextCtl + 1
  /\ UNCHANGED <<retry, controller, lastOp, registry, timeoutCall, errorHandler, login, host>>

\* host message 'image-data' for the export run r awaits
ExportResolves(r) ==
  /\ runs[r].pc = "exporting"
  /\ Set(AfterExport([Cur EXCEPT !.pend = RemovePending(@, CurrentId(Cur, r))], r))
  /\ UNCHANGED <<nextCtl, retry, controller, lastOp, registry, timeoutCall, errorHandler, login, host>>

\* withTimeout fires for the export run r awaits
ExportTimesOut(r) ==
  /\ runs[r].pc = "exporting"
  /\ Set(Catch([Cur EXCEPT !.pend = RemovePending(@, CurrentId(Cur, r))], r, "Timeout"))
  /\ UNCHANGED <<nextCtl, retry, controller, lastOp, registry, timeoutCall, errorHandler, login, host>>

\* host message 'error'
HostErrorMessage ==
  /\ pendingExports # << >>
  /\ Set(RejectAll([Cur EXCEPT !.pend = << >>], pendingExports))
  /\ UNCHANGED <<nextCtl, retry, controller, lastOp, registry, timeoutCall, errorHandler, login, host>>

\* the removeBackground request of run r settles
RemoveBackgroundSettles(r, out) ==
  /\ runs[r].pc = "processing"
  /\ RequestSignalAborted(r) <=> out = "Abort"
  /\ Set(IF out = "ok" THEN AfterRemoveBackground(Cur, r)
         ELSE Catch(Cur, r, RethrowRequestError(out, "ApiNetwork")))
  /\ UNCHANGED <<nextCtl, retry, controller, lastOp, registry, timeoutCall, errorHandler, login, host>>

\* the downloadMask request of run r settles
DownloadMaskSettles(r, out) ==
  /\ runs[r].pc = "downloading"
  /\ RequestSignalAborted(r) <=> out = "Abort"
  /\ Set(IF out = "ok" THEN AfterDownload(Cur, r)
         ELSE Catch(Cur, r, RethrowRequestError(out, "DownloadNetwork")))
  /\ UNCHANGED <<nextCtl, retry, controller, lastOp, registry, timeoutCall, errorHandler, login, host>>

\* the request-timeout timer of the remote call run r awaits fires:
\* timeoutController.abort() aborts the combined signal, fetch rejects with
\* an AbortError and the catch block of the call rethrows it
RequestTimesOut(r) ==
  /\ runs[r].pc \in {"processing", "downloading"}
  /\ LET S1 == [Cur EXCEPT !.runs[r].timedOut = TRUE]
     IN  Set(Catch(S1, r, RethrowRequestError("Abort", "ApiNetwork")))
  /\ UNCHANGED <<nextCtl, retry, controller, lastOp, registry, timeoutCall, errorHandler, login, host>>

\* applyMaskToImage of run r settles (it does not observe the signal)
ApplyMaskSettles(r, out) ==
  /\ runs[r].pc = "applying"
  /\ Set(IF out = "ok" THEN AfterApply(Cur, r) ELSE Catch(Cur, r, out))
  /\ UNCHANGED <<nextCtl, retry, controller, lastOp, registry, timeoutCall, errorHandler, login, host>>

\* auth.refreshAccountInfo() returns (it never throws), the completion
\* timer is set
RefreshReturns(r) ==
  /\ runs[r].pc = "refreshing"
  /\ runs' = [runs EXCEPT ![r].pc = "delay"]
  /\ UNCHANGED <<store, aborted, nextCtl, currentView, authToken, errorState,
                 autoClearTimeout, pendingExports, retry, controller, lastOp,
                 registry, timeoutCall, errorHandler, login, host>>

\* the completion timer of run r fires
CompletionTimerFires(r) ==
  /\ runs[r].pc = "delay"
  /\ Set([Cur EXCEPT !.view = "main", !.store = reset(@), !.runs[r].pc = "done"])
  /\ UNCHANGED <<nextCtl, retry, controller, lastOp, registry, timeoutCall, errorHandler, login, host>>

\* handleCancelProcessing: the Cancel button of ProcessingView
CancelProcessing ==
  /\ currentView = "processing"
  /\ canCancel(store)
  /\ Set([Cur EXCEPT !.aborted = @ \cup AbortedBy(store),
                     !.store = finish(cancel(@)),
                     !.view = "main"])
  /\ UNCHANGED <<nextCtl, retry, controller, lastOp, registry, timeoutCall, errorHandler, login, host>>

\* the error handler's auto-clear timer fires
AutoClearFires ==
  /\ autoClearTimeout
  /\ Set(clearError(Cur))
  /\ UNCHANGED <<nextCtl, retry, controller, lastOp, registry, timeoutCall, errorHandler, login, host>>

Runs == 1..MaxOverlapBatches

\* useProcessingController: abortController = null, isProcessing = false
InitialController ==
  [abortController |-> NoController, isProcessing |-> FALSE, created |-> 0, aborted |-> {}]

NoOp == [op |-> "none", repeated |-> FALSE]

InitRetryIdle == [pc |-> "off"]

\* createCleanupRegistry(): cleanupFns = [].  `throwing` is the set of cleanup
\* functions that throw when invoked; invoked, logged, calls and propagated are
\* what an observer of the functions, of console.error and of cleanup() sees
InitialRegistry(throwing) ==
  [cleanupFns |-> << >>, throwing |-> throwing, invoked |-> << >>, logged |-> 0,
   calls |-> 0, lastInvoked |-> << >>, propagated |-> FALSE]

\* no withTimeout call yet
IdleTimeoutCall ==
  [pc |-> "idle", hasOnTimeout |-> FALSE, timer |-> "none", operation |-> "none",
   result |-> "none", settleCalls |-> 0, onTimeoutCalls |-> 0]

\* useErrorHandler({ autoClearMs }) just created.  timers are the host's pending
\* timers, now is the host's clock; setAt, calls, lastCall, onAuthError and
\* onCreditsError are what an observer of the handler and of the callbacks sees
InitialErrorHandler(autoClearMs) ==
  [autoClearMs |-> autoClearMs, state |-> NoErrorState, autoClearTimeout |-> 0,
   timers |-> {}, nextTimer |-> 1, now |-> 0, setAt |-> 0, calls |-> 0,
   lastCall |-> [op |-> "none", error |-> NoError],
   onAuthError |-> 0, onCreditsError |-> 0]

\* the UI is mounted and the host has answered none of its requests: exports
\* and creations count, per batch, the 'export-image' and the
\* 'create-image-from-data' requests the host has answered; lastMessage is the
\* message the host sent last and the batch whose request it answers
InitialHost ==
  [mounted |-> TRUE, exports |-> [r \in Runs |-> 0], creations |-> [r \in Runs |-> 0],
   lastMessage |-> [type |-> "none", request |-> "none", run |-> 0, id |-> 0]]

LoginAttempts == 1..MaxLogins

\* useAuth just created, no saved token.  socket, timer and promise are the
\* WebSocket, the login-timeout timer and the promise of each startLogin call;
\* cancelled and lastCall are what an observer of the calls sees
InitialLogin ==
  [isLoading |-> FALSE, error |-> "none", isAuthenticated |-> FALSE,
   activeWebSocket |-> 0, attempts |-> 0,
   socket |-> [a \in LoginAttempts |-> "none"],
   timer |-> [a \in LoginAttempts |-> "none"],
   promise |-> [a \in LoginAttempts |-> "none"],
   cancelled |-> {}, lastCall |-> [op |-> "none", attempt |-> 0]]

Init ==
  /\ store = InitialStore
  /\ aborted = {}
  /\ nextCtl = 0
  /\ currentView = "login"
  /\ authToken = FALSE
  /\ errorState = NoErrorState
  /\ autoClearTimeout = FALSE
  /\ pendingExports = << >>
  /\ runs = [r \in Runs |-> IdleRun]
  /\ retry = InitRetryIdle
  /\ controller = InitialController
  /\ lastOp = NoOp
  /\ registry = InitialRegistry({})
  /\ timeoutCall = IdleTimeoutCall
  /\ errorHandler = InitialErrorHandler(0)
  /\ login = InitialLogin
  /\ host = InitialHost

Next ==
  \/ Login
  \/ SignOut
  \/ \E images \in Selections : nextCtl < MaxBatches /\ ProcessRemoveBackground(images)
  \/ \E r \in Runs : ExportResolves(r)
  \/ \E r \in Runs : ExportTimesOut(r)
  \/ HostErrorMessage
  \/ \E r \in Runs : \E out \in {"ok"} \cup RemoveBackgroundErrors : RemoveBackgroundSettles(r, out)
  \/ \E r \in Runs : \E out \in {"ok"} \cup DownloadMaskErrors : DownloadMaskSettles(r, out)
  \/ \E r \in Runs : RequestTimesOut(r)
  \/ \E r \in Runs : \E out \in {"ok", "ImageProcessing"} : ApplyMaskSettles(r, out)
  \/ \E r \in Runs : RefreshReturns(r)
  \/ \E r \in Runs : CompletionTimerFires(r)
  \/ CancelProcessing
  \/ AutoClearFires

Spec == Init /\ [][Next]_vars

----------------------------------------------------------------------------
(* Overlapping pipelines.  The same application, followed over             *)
(* MaxOverlapBatches batches in the runs where no collaborator fails by    *)
(* itself (a remote call fails only because its signal was aborted) and    *)
(* the user stays signed in.                                               *)

NextOverlap ==
  \/ Login
  \/ \E images \in Selections :
       nextCtl < MaxOverlapBatches /\ ProcessRemoveBackground(images)
  \/ \E r \in Runs : ExportResolves(r)
  \/ \E r \in Runs : \E out \in {"ok", "Abort"} : RemoveBackgroundSettles(r, out)
  \/ \E r \in Runs : \E out \in {"ok", "Abort"} : DownloadMaskSettles(r, out)
  \/ \E r \in Runs : ApplyMaskSettles(r, "ok")
  \/ \E r \in Runs : RefreshReturns(r)
  \/ \E r \in Runs : CompletionTimerFires(r)
  \/ CancelProcessing

SpecOverlap == Init /\ [][NextOverlap]_vars

----------------------------------------------------------------------------
(* The plugin bridge (SpecHost).  The same application over MaxBatches     *)
(* batches, with every message of the host attributed to the request it    *)
(* answers: an export request is answered by 'image-data' or 'error', a    *)
(* creation request by 'image-created' or 'error', at any later time.  The *)
(* remote calls fail only because their signal was aborted.  The run ends  *)
(* when the UI is unmounted.                                               *)

\* the ids of the pending exports
PendingIds(pend) == { pend[k] : k \in 1..Len(pend) }

\* handleMessage, case 'image-data': the pending export of id, if there is
\* one, is removed and resolved
HandleImageData(S, id) ==
  IF id \in PendingIds(S.pend)
    THEN AfterExport([S EXCEPT !.pend = RemovePending(@, id)], RunOf(S, id))
    ELSE S

\* handleMessage, case 'error': every pending export is removed and rejected
HandleErrorMessage(S) == RejectAll([S EXCEPT !.pend = << >>], S.pend)

\* onUnmounted: every pending export is rejected and removed
RECURSIVE RejectUnmounted(_, _)
RejectUnmounted(S, ids) ==
  IF ids = << >> THEN S
  ELSE RejectUnmounted(Catch(S, RunOf(S, Head(ids)), "ComponentUnmounted"), Tail(ids))

hostFrame ==
  <<nextCtl, retry, controller, lastOp, registry, timeoutCall, errorHandler, login>>

\* the host answers the oldest unanswered 'export-image' request of batch r
HostAnswersExport(r, type) ==
  /\ host.exports[r] < Len(runs[r].exportRequests)
  /\ LET id == runs[r].exportRequests[host.exports[r] + 1]
     IN  /\ Set(IF type = "image-data" THEN HandleImageData(Cur, id)
                ELSE HandleErrorMessage(Cur))
         /\ host' = [host EXCEPT
                       !.exports[r] = @ + 1,
                       !.lastMessage = [type |-> type, request |-> "export-image",
                                        run |-> r, id |-> id]]
  /\ UNCHANGED hostFrame

\* the host answers the oldest unanswered 'create-image-from-data' request of
\* batch r; 'image-created' changes nothing in the UI
HostAnswersCreation(r, type) ==
  /\ host.creations[r] < Len(runs[r].yielded)
  /\ LET id == runs[r].yielded[host.creations[r] + 1]
     IN  /\ Set(IF type = "image-created" THEN Cur ELSE HandleErrorMessage(Cur))
         /\ host' = [host EXCEPT
                       !.creations[r] = @ + 1,
                       !.lastMessage = [type |-> type, request |-> "create-image-from-data",
                                        run |-> r, id |-> id]]
  /\ UNCHANGED hostFrame

\* the UI is unmounted
Unmounted ==
  /\ Set(RejectUnmounted([Cur EXCEPT !.pend = << >>], pendingExports))
  /\ host' = [host EXCEPT !.mounted = FALSE,
                          !.lastMessage = [type |-> "none", request |-> "unmount",
                                           run |-> 0, id |-> 0]]
  /\ UNCHANGED hostFrame

\* every step is taken while the UI is mounted
NextHost ==
  \/ host.mounted /\ Login
  \/ \E images \in Selections :
       host.mounted /\ nextCtl < MaxBatches /\ ProcessRemoveBackground(images)
  \/ \E r \in Runs : \E type \in {"image-data", "error"} :
       host.mounted /\ HostAnswersExport(r, type)
  \/ \E r \in Runs : \E type \in {"image-created", "error"} :
       host.mounted /\ HostAnswersCreation(r, type)
  \/ \E r \in Runs : host.mounted /\ ExportTimesOut(r)
  \/ \E r \in Runs : \E out \in {"ok", "Abort"} :
       host.mounted /\ RemoveBackgroundSettles(r, out)
  \/ \E r \in Runs : \E out \in {"ok", "Abort"} :
       host.mounted /\ DownloadMaskSettles(r, out)
  \/ \E r \in Runs : host.mounted /\ ApplyMaskSettles(r, "ok")
  \/ \E r \in Runs : host.mounted /\ RefreshReturns(r)
  \/ \E r \in Runs : host.mounted /\ CompletionTimerFires(r)
  \/ host.mounted /\ CancelProcessing
  \/ host.mounted /\ Unmounted

SpecHost == Init /\ [][NextHost]_vars

----------------------------------------------------------------------------
(* The public operations of processingStore and of useProcessingController *)
(* called directly, in any order.                                          *)

clearHistory(s) == [s EXCEPT !.history = << >>]

\* a cancel that aborts the controller and keeps the reference to it
ControllerCancel_keepsReference(c) ==
  [c EXCEPT !.aborted = IF c.abortController # NoController
                          THEN @ \cup {c.abortController} ELSE @,
            !.isProcessing = FALSE]

\* useProcessingController.cancel
ControllerCancel(c) ==
  [c EXCEPT !.aborted = IF c.abortController # NoController
                          THEN @ \cup {c.abortController} ELSE @,
            !.abortController = NoController,
            !.isProcessing = FALSE]

\* useProcessingController.startProcessing
startProcessing(c) ==
  [ControllerCancel(c) EXCEPT !.abortController = c.created + 1,
                              !.created = c.created + 1,
                              !.isProcessing = TRUE]

\* useProcessingController.finish
ControllerFinish(c) == [c EXCEPT !.abortController = NoController, !.isProcessing = FALSE]

\* useProcessingController.isCancelled: abortController?.signal.aborted ?? false
isCancelled(c) ==
  IF c.abortController = NoController THEN FALSE
  ELSE c.abortController \in c.aborted

\* the jobs cancel() would mark
Cancellable(s) == { k \in 1..Len(s.jobs) : s.jobs[k].status \in {"pending", "processing"} }

\* lastOp tells cancel() from the other operations, and a cancel() that
\* directly follows a cancel()
Called(op) == lastOp' = [op |-> op, repeated |-> (op = "cancel" /\ lastOp.op = "cancel")]

appVars ==
  <<currentView, authToken, errorState, autoClearTimeout, pendingExports, runs, retry,
    registry, timeoutCall, errorHandler, login, host>>

StoreStartBatch(items) ==
  /\ nextCtl < MaxBatches
  /\ store' = startBatch(store, items, nextCtl + 1)
  /\ nextCtl' = nextCtl + 1
  /\ Called("other")
  /\ UNCHANGED <<aborted, controller, appVars>>

StoreUpdateJobProgress(id, progress, stage) ==
  /\ store' = updateJobProgress(store, id, progress, stage)
  /\ Called("other")
  /\ UNCHANGED <<aborted, nextCtl, controller, appVars>>

StoreCompleteJob(id) ==
  /\ Len(store.history) < MaxHistory
  /\ store' = completeJob(store, id)
  /\ Called("other")
  /\ UNCHANGED <<aborted, nextCtl, controller, appVars>>

StoreFailJob(id, error) ==
  /\ Len(store.history) < MaxHistory
  /\ store' = failJob(store, id, error)
  /\ Called("other")
  /\ UNCHANGED <<aborted, nextCtl, controller, appVars>>

StoreCancel ==
  /\ Len(store.history) + Cardinality(Cancellable(store)) <= MaxHistory
  /\ store' = cancel(store)
  /\ aborted' = aborted \cup AbortedBy(store)
  /\ Called("cancel")
  /\ UNCHANGED <<nextCtl, controller, appVars>>

StoreFinish ==
  /\ store' = finish(store)
  /\ Called("other")
  /\ UNCHANGED <<aborted, nextCtl, controller, appVars>>

StoreReset ==
  /\ store' = reset(store)
  /\ Called("other")
  /\ UNCHANGED <<aborted, nextCtl, controller, appVars>>

StoreClearHistory ==
  /\ store' = clearHistory(store)
  /\ Called("other")
  /\ UNCHANGED <<aborted, nextCtl, controller, appVars>>

ControllerStartProcessing ==
  /\ controller.created < MaxBatches
  /\ controller' = startProcessing(controller)
  /\ UNCHANGED <<store, aborted, nextCtl, lastOp, appVars>>

ControllerCancels ==
  /\ controller' = ControllerCancel(controller)
  /\ UNCHANGED <<store, aborted, nextCtl, lastOp, appVars>>

ControllerFinishes ==
  /\ controller' = ControllerFinish(controller)
  /\ UNCHANGED <<store, aborted, nextCtl, lastOp, appVars>>

NextStore ==
  \/ \E items \in Selections : StoreStartBatch(items)
  \/ \E id \in ItemIds : StoreUpdateJobProgress(id, 50, "Exporting")
  \/ \E id \in ItemIds : StoreCompleteJob(id)
  \/ \E id \in ItemIds : StoreFailJob(id, "HostError")
  \/ StoreCancel
  \/ StoreFinish
  \/ StoreReset
  \/ StoreClearHistory
  \/ ControllerStartProcessing
  \/ ControllerCancels
  \/ ControllerFinishes

SpecStore == Init /\ [][NextStore]_vars

----------------------------------------------------------------------------
(* Retry utility: withRetry(fn, options).  `retry` holds the options, the  *)
(* locals of the call (attempt, lastError), the signal's aborted flag, the *)
(* position of the call and what an observer of fn, onRetry and the timer  *)
(* sees (calls, raised, onRetryLog, waits).                                *)

\* isRetryableError, the default predicate
isRetryableError(e) ==
  IF IsAbortError(e) THEN FALSE
  ELSE IF ErrInfo(e).cls = "TypeError" /\ "fetch" \in ErrInfo(e).words THEN TRUE
  ELSE LET w == ErrInfo(e).lwords
       IN  IF "network" \in w \/ "connection" \in w THEN TRUE
           ELSE IF "401" \in w \/ "unauthorized" \in w THEN FALSE
           ELSE IF "400" \in w \/ "403" \in w \/ "404" \in w THEN FALSE
           ELSE IF "500" \in w \/ "502" \in w \/ "503" \in w \/ "504" \in w THEN TRUE
           ELSE IF "timeout" \in w THEN TRUE
           ELSE FALSE

\* a predicate that is never consulted: every error counts as retryable
isRetryable_always(policy, e) == TRUE

\* options.isRetryable: the default, or a custom predicate accepting everything
isRetryable(policy, e) ==
  IF policy = "default" THEN isRetryableError(e) ELSE TRUE

RECURSIVE Pow(_, _)
Pow(b, n) == IF n = 0 THEN 1 ELSE b * Pow(b, n - 1)

Min(a, b) == IF a <= b THEN a ELSE b

\* a backoff without the cap at maxDelay
BackoffDelay_uncapped(attempt, baseDelay, maxDelay, multiplier) ==
  baseDelay * Pow(multiplier, attempt - 1)

\* calculateDelay without jitter
BackoffDelay(attempt, baseDelay, maxDelay, multiplier) ==
  Min(baseDelay * Pow(multiplier, attempt - 1), maxDelay)

\* calculateDelay: the values Math.round(delay * f) takes for f in [0.75, 1.25)
calculateDelay(attempt, baseDelay, maxDelay, multiplier, jitter) ==
  LET d == BackoffDelay(attempt, baseDelay, maxDelay, multiplier)
  IN  IF jitter THEN { v \in 0..(2 * d) : 4 * v + 2 > 3 * d /\ 4 * v - 2 < 5 * d }
      ELSE {d}

\* what fn() can reject with: errors worded as in the tests of the utility,
\* and the errors the system's own components raise (ApiService, withTimeout,
\* the host bridge)
OperationErrors ==
  {"NetworkDown", "Server503", "Unauthorized", "Abort", "UnauthorizedConn", "RequestTimeout",
   "ApiAuth", "ApiServer", "ApiNetwork", "DownloadFailed", "Timeout", "HostError"}

RetryOptions ==
  [maxAttempts : 1..MaxAttemptsBound, baseDelay : {1, 2}, maxDelay : {3},
   multiplier : {1, 2}, jitter : BOOLEAN, policy : {"default", "custom"},
   hasSignal : BOOLEAN]

\* signal?.aborted
SignalAborted(R) == R.opts.hasSignal /\ R.aborted

\* throw out of withRetry
Throw(R, e) == [R EXCEPT !.pc = "thrown", !.result = e]

\* the loop head without the check of signal.aborted
Attempt_noAbortCheck(R, attempt) ==
  IF attempt > R.opts.maxAttempts THEN Throw(R, R.lastError)
  ELSE [R EXCEPT !.attempt = attempt, !.pc = "calling", !.calls = @ + 1]

\* the loop head and the call of fn for the given attempt
Attempt(R, attempt) ==
  IF attempt > R.opts.maxAttempts THEN Throw(R, R.lastError)
  ELSE IF SignalAborted(R) THEN Throw(R, "Abort")
  ELSE [R EXCEPT !.attempt = attempt, !.pc = "calling", !.calls = @ + 1]

\* sleep(ms, signal) up to its first suspension
sleep(R, ms) ==
  IF SignalAborted(R) THEN Throw(R, "Abort")
  ELSE [R EXCEPT !.pc = "sleeping", !.waits = @ + 1, !.delay = ms]

\* sleep() without an abort listener: the timer keeps running
SleepAbortListener_missing(R) == R

\* the abort listener sleep() registers on the signal
SleepAbortListener(R) == Throw(R, "Abort")

\* giving up one attempt early
AttemptsExhausted_early(R) == R.attempt + 1 >= R.opts.maxAttempts

\* attempt >= maxAttempts
AttemptsExhausted(R) == R.attempt >= R.opts.maxAttempts

\* the catch block of withRetry for error e, with the delay calculateDelay drew
CatchRetry(R, e, delay) ==
  LET R1 == [R EXCEPT !.lastError = e, !.raised = Append(@, e)]
  IN  IF AttemptsExhausted(R1) THEN Throw(R1, e)
      ELSE IF ~isRetryable(R1.opts.policy, e) THEN Throw(R1, e)
      ELSE sleep([R1 EXCEPT !.onRetryLog =
                     Append(@, [attempt |-> R1.attempt, error |-> e, delay |-> delay,
                                signalled |-> SignalAborted(R1)])],
                 delay)

\* tryWithRetry(fn, options) once the withRetry call it awaits has settled as
\* R tells: its local `attempts` is the attempt of the last onRetry call
tryWithRetry(R) ==
  LET attempts == IF R.onRetryLog = << >> THEN 0
                  ELSE R.onRetryLog[Len(R.onRetryLog)].attempt
  IN  IF R.pc = "returned"
        THEN [success |-> TRUE, data |-> R.result, error |-> NoError,
              attempts |-> attempts + 1]
        ELSE [success |-> FALSE, data |-> "none", error |-> R.result,
              attempts |-> Min(attempts + 1, R.opts.maxAttempts)]

\* withRetry is called
WithRetryCalled ==
  /\ retry.pc = "init"
  /\ retry' = Attempt([retry EXCEPT !.abortedAtCall = SignalAborted(retry)], 1)
  /\ UNCHANGED sysVars

\* fn() resolves: withRetry returns its value
OperationResolves ==
  /\ retry.pc = "calling"
  /\ retry' = [retry EXCEPT !.pc = "returned", !.result = "ok"]
  /\ UNCHANGED sysVars

\* fn() rejects with e
OperationRejects(e) ==
  /\ retry.pc = "calling"
  /\ \E delay \in calculateDelay(retry.attempt, retry.opts.baseDelay, retry.opts.maxDelay,
                                 retry.opts.multiplier, retry.opts.jitter) :
       retry' = CatchRetry(retry, e, delay)
  /\ UNCHANGED sysVars

\* the timer of sleep() fires: next iteration of the loop
SleepElapses ==
  /\ retry.pc = "sleeping"
  /\ retry' = Attempt(retry, retry.attempt + 1)
  /\ UNCHANGED sysVars

\* the owner of the signal aborts it
SignalAborts ==
  /\ retry.pc \in {"init", "calling", "sleeping"}
  /\ retry.opts.hasSignal
  /\ ~retry.aborted
  /\ retry' = IF retry.pc = "sleeping"
                THEN SleepAbortListener([retry EXCEPT !.aborted = TRUE])
                ELSE [retry EXCEPT !.aborted = TRUE]
  /\ UNCHANGED sysVars

InitRetry ==
  /\ store = InitialStore
  /\ aborted = {}
  /\ nextCtl = 0
  /\ currentView = "login"
  /\ authToken = FALSE
  /\ errorState = NoErrorState
  /\ autoClearTimeout = FALSE
  /\ pendingExports = << >>
  /\ runs = [r \in Runs |-> IdleRun]
  /\ controller = InitialController
  /\ lastOp = NoOp
  /\ registry = InitialRegistry({})
  /\ timeoutCall = IdleTimeoutCall
  /\ errorHandler = InitialErrorHandler(0)
  /\ login = InitialLogin
  /\ host = InitialHost
  /\ \E o \in RetryOptions :
       retry = [pc |-> "init", opts |-> o, attempt |-> 0, lastError |-> NoError,
                aborted |-> FALSE, abortedAtCall |-> FALSE, calls |-> 0,
                raised |-> << >>, onRetryLog |-> << >>, waits |-> 0, delay |-> 0,
                result |-> "none"]

NextRetry ==
  \/ WithRetryCalled
  \/ OperationResolves
  \/ \E e \in OperationErrors : OperationRejects(e)
  \/ SleepElapses
  \/ SignalAborts

SpecRetry == InitRetry /\ [][NextRetry]_vars

----------------------------------------------------------------------------
(* Utilities of utils/cleanup.ts called directly: one cleanup registry     *)
(* (register, cleanup, size) and one withTimeout call.  cleanup() is       *)
(* synchronous and is one step; withTimeout is followed over its timer and *)
(* the settlement of the promise it wraps.                                 *)

CleanupFns == 1..MaxFns

\* register(fn): cleanupFns.push(fn)
register(R, fn) == [R EXCEPT !.cleanupFns = Append(@, fn)]

\* size(): cleanupFns.length
size(R) == Len(R.cleanupFns)

\* the call of fn outside a try block: its exception leaves cleanup()
TryInvoke_noCatch(R, fn) ==
  LET R1 == [R EXCEPT !.invoked = Append(@, fn), !.lastInvoked = Append(@, fn)]
  IN  IF fn \in R.throwing THEN [R1 EXCEPT !.propagated = TRUE] ELSE R1

\* try { fn?.() } catch (error) { console.error(...) }
TryInvoke(R, fn) ==
  LET R1 == [R EXCEPT !.invoked = Append(@, fn), !.lastInvoked = Append(@, fn)]
  IN  IF fn \in R.throwing THEN [R1 EXCEPT !.logged = @ + 1] ELSE R1

\* while (cleanupFns.length > 0) { const fn = cleanupFns.pop(); ... }; an
\* exception that leaves the loop body ends the loop
RECURSIVE CleanupLoop(_)
CleanupLoop(R) ==
  IF Len(R.cleanupFns) = 0 \/ R.propagated THEN R
  ELSE LET fn == R.cleanupFns[Len(R.cleanupFns)]
       IN  CleanupLoop(TryInvoke([R EXCEPT !.cleanupFns = SubSeq(@, 1, Len(@) - 1)], fn))

\* cleanup()
cleanup(R) ==
  CleanupLoop([R EXCEPT !.calls = @ + 1, !.lastInvoked = << >>, !.propagated = FALSE])

\* what the wrapped promise can settle with: a value, or an error
OperationOutcomes == {"value", "HostError", "Abort"}

\* withTimeout(promise, timeoutMs, onTimeout?), up to its return: the timer is
\* set and the handlers are attached to the wrapped promise
withTimeout(hasOnTimeout) ==
  [IdleTimeoutCall EXCEPT !.pc = "pending", !.hasOnTimeout = hasOnTimeout,
                          !.timer = "armed", !.operation = "pending"]

\* resolve(...) or reject(...) of the promise withTimeout returns: the first
\* call settles it, a later call has no effect
Settle(T, outcome) ==
  [T EXCEPT !.settleCalls = @ + 1,
            !.pc = "settled",
            !.result = IF T.pc = "pending" THEN outcome ELSE @]

\* handlers that leave the timer running
clearTimeout_missing(T) == T

\* clearTimeout(timeoutId)
clearTimeout(T) == [T EXCEPT !.timer = IF @ = "armed" THEN "cleared" ELSE @]

\* the setTimeout callback: onTimeout?.(), reject(new TimeoutError(...))
TimeoutCallback(T) ==
  Settle([T EXCEPT !.timer = "fired",
                   !.onTimeoutCalls = IF T.hasOnTimeout THEN @ + 1 ELSE @],
         "Timeout")

\* the .then and .catch handlers: clearTimeout(timeoutId), then resolve(result)
\* or reject(error)
OperationSettled(T, out) == Settle(clearTimeout([T EXCEPT !.operation = out]), out)

cleanupFrame ==
  <<store, aborted, nextCtl, currentView, authToken, errorState, autoClearTimeout,
    pendingExports, runs, retry, controller, lastOp, errorHandler, login, host>>

RegistryRegisters(fn) ==
  /\ Len(registry.cleanupFns) + Len(registry.invoked) < MaxRegistered
  /\ registry' = register(registry, fn)
  /\ UNCHANGED <<timeoutCall, cleanupFrame>>

RegistryCleanup ==
  /\ registry.calls < MaxCleanupCalls
  /\ registry' = cleanup(registry)
  /\ UNCHANGED <<timeoutCall, cleanupFrame>>

WithTimeoutCalled(hasOnTimeout) ==
  /\ timeoutCall.pc = "idle"
  /\ timeoutCall' = withTimeout(hasOnTimeout)
  /\ UNCHANGED <<registry, cleanupFrame>>

\* the wrapped promise settles, before or after the timer fired
WrappedOperationSettles(out) ==
  /\ timeoutCall.operation = "pending"
  /\ timeoutCall' = OperationSettled(timeoutCall, out)
  /\ UNCHANGED <<registry, cleanupFrame>>

\* the timer of withTimeout fires
TimeoutTimerFires ==
  /\ timeoutCall.timer = "armed"
  /\ timeoutCall' = TimeoutCallback(timeoutCall)
  /\ UNCHANGED <<registry, cleanupFrame>>

InitCleanup ==
  /\ store = InitialStore
  /\ aborted = {}
  /\ nextCtl = 0
  /\ currentView = "login"
  /\ authToken = FALSE
  /\ errorState = NoErrorState
  /\ autoClearTimeout = FALSE
  /\ pendingExports = << >>
  /\ runs = [r \in Runs |-> IdleRun]
  /\ retry = InitRetryIdle
  /\ controller = InitialController
  /\ lastOp = NoOp
  /\ \E throwing \in SUBSET CleanupFns : registry = InitialRegistry(throwing)
  /\ timeoutCall = IdleTimeoutCall
  /\ errorHandler = InitialErrorHandler(0)
  /\ login = InitialLogin
  /\ host = InitialHost

NextCleanup ==
  \/ \E fn \in CleanupFns : RegistryRegisters(fn)
  \/ RegistryCleanup
  \/ \E hasOnTimeout \in BOOLEAN : WithTimeoutCalled(hasOnTimeout)
  \/ \E out \in OperationOutcomes : WrappedOperationSettles(out)
  \/ TimeoutTimerFires

SpecCleanup == InitCleanup /\ [][NextCleanup]_vars

----------------------------------------------------------------------------
(* useErrorHandler called directly (SpecErrors): one handler instance, the  *)
(* host's timers and clock, and callbacks that only count their calls.      *)

\* every value handleError can be given: the error values and the AppErrors
\* AppError.from builds from them
ErrorValues == BaseErrors \cup { AppErrorFrom(e) : e \in BaseErrors }

\* clearTimeout(id): the host forgets the timer; a timer that fired is gone
HostClearTimeout(H, id) == [H EXCEPT !.timers = { t \in @ : t.id # id }]

clearAutoClearTimeout(H) ==
  IF H.autoClearTimeout # 0
    THEN [HostClearTimeout(H, H.autoClearTimeout) EXCEPT !.autoClearTimeout = 0]
    ELSE H

\* autoClearTimeout = setTimeout(clearError, autoClearMs)
ArmAutoClear(H) ==
  [H EXCEPT !.timers = @ \cup {[id |-> H.nextTimer, due |-> H.now + H.autoClearMs]},
            !.autoClearTimeout = H.nextTimer,
            !.nextTimer = @ + 1]

ErrorHandlerClearError(H) == [clearAutoClearTimeout(H) EXCEPT !.state = NoErrorState]

ErrorHandlerSetError_keepsTimer(H, message, code) ==
  LET H1 == [H EXCEPT
               !.state = [message |-> message, code |-> code, recoverable |-> TRUE,
                          hasError |-> TRUE],
               !.setAt = H.now]
  IN  IF H1.autoClearMs # 0 /\ H1.state.recoverable THEN ArmAutoClear(H1) ELSE H1
ErrorHandlerSetError(H, message, code) ==
  LET H1 == [clearAutoClearTimeout(H) EXCEPT
               !.state = [message |-> message, code |-> code, recoverable |-> TRUE,
                          hasError |-> TRUE],
               !.setAt = H.now]
  IN  IF H1.autoClearMs # 0 /\ H1.state.recoverable THEN ArmAutoClear(H1) ELSE H1

\* handleError(error, { onAuthError, onCreditsError }); withCallbacks is FALSE
\* when the caller passes no callbacks
ErrorHandlerHandleError_noCancelCheck(H, e, withCallbacks) ==
  LET d  == mapErrorToDetails(e)
      H1 == [clearAutoClearTimeout(H) EXCEPT
               !.state = [message |-> d.message, code |-> d.code,
                          recoverable |-> d.recoverable, hasError |-> TRUE],
               !.setAt = H.now]
      H2 == IF isAuthError(e) /\ withCallbacks
              THEN [H1 EXCEPT !.onAuthError = @ + 1] ELSE H1
      H3 == IF isCreditsError(e) /\ withCallbacks
              THEN [H2 EXCEPT !.onCreditsError = @ + 1] ELSE H2
  IN  IF H3.autoClearMs # 0 /\ d.recoverable THEN ArmAutoClear(H3) ELSE H3
ErrorHandlerHandleError(H, e, withCallbacks) ==
  IF isCancellationError(e) THEN H
  ELSE LET d  == mapErrorToDetails(e)
           H1 == [clearAutoClearTimeout(H) EXCEPT
                    !.state = [message |-> d.message, code |-> d.code,
                               recoverable |-> d.recoverable, hasError |-> TRUE],
                    !.setAt = H.now]
           H2 == IF isAuthError(e) /\ withCallbacks
                   THEN [H1 EXCEPT !.onAuthError = @ + 1] ELSE H1
           H3 == IF isCreditsError(e) /\ withCallbacks
                   THEN [H2 EXCEPT !.onCreditsError = @ + 1] ELSE H2
       IN  IF H3.autoClearMs # 0 /\ d.recoverable THEN ArmAutoClear(H3) ELSE H3

\* the host runs the callback of timer id: the timer is gone, clearError runs
AutoClearCallback(H, id) == ErrorHandlerClearError(HostClearTimeout(H, id))

\* messages and codes given to setError; the code defaults to UNKNOWN
SetErrorMessages == {"Please select an image"}
SetErrorCodes == {"UNKNOWN", "EXPORT_FAILED"}

HandlerCalled(H, op, e) ==
  [H EXCEPT !.calls = @ + 1, !.lastCall = [op |-> op, error |-> e]]

errorsFrame ==
  <<store, aborted, nextCtl, currentView, authToken, errorState, autoClearTimeout,
    pendingExports, runs, retry, controller, lastOp, registry, timeoutCall, login, host>>

\* a call is made while its timer can still fire within the clock's range
CanCallHandler ==
  /\ errorHandler.calls < MaxHandlerCalls
  /\ errorHandler.now + MaxAutoClearMs <= MaxTime

ClearErrorCalled ==
  /\ CanCallHandler
  /\ errorHandler' = HandlerCalled(ErrorHandlerClearError(errorHandler), "clearError", NoError)
  /\ UNCHANGED errorsFrame

SetErrorCalled(message, code) ==
  /\ CanCallHandler
  /\ errorHandler' =
       HandlerCalled(ErrorHandlerSetError(errorHandler, message, code), "setError", NoError)
  /\ UNCHANGED errorsFrame

HandleErrorCalled(e, withCallbacks) ==
  /\ CanCallHandler
  /\ errorHandler' =
       HandlerCalled(ErrorHandlerHandleError(errorHandler, e, withCallbacks),
                     "handleError", e)
  /\ UNCHANGED errorsFrame

\* a pending timer fires when it is due
AutoClearTimerFires ==
  /\ \E t \in errorHandler.timers :
       /\ t.due <= errorHandler.now
       /\ errorHandler' =
            [AutoClearCallback(errorHandler, t.id) EXCEPT
               !.lastCall = [op |-> "timer", error |-> NoError]]
  /\ UNCHANGED errorsFrame

\* the clock advances; the host lets no timer pass its due time
TimePasses ==
  /\ errorHandler.now < MaxTime
  /\ \A t \in errorHandler.timers : t.due > errorHandler.now
  /\ errorHandler' = [errorHandler EXCEPT !.now = @ + 1,
                                          !.lastCall = [op |-> "tick", error |-> NoError]]
  /\ UNCHANGED errorsFrame

InitErrors ==
  /\ store = InitialStore
  /\ aborted = {}
  /\ nextCtl = 0
  /\ currentView = "login"
  /\ authToken = FALSE
  /\ errorState = NoErrorState
  /\ autoClearTimeout = FALSE
  /\ pendingExports = << >>
  /\ runs = [r \in Runs |-> IdleRun]
  /\ retry = InitRetryIdle
  /\ controller = InitialController
  /\ lastOp = NoOp
  /\ registry = InitialRegistry({})
  /\ timeoutCall = IdleTimeoutCall
  /\ login = InitialLogin
  /\ host = InitialHost
  /\ \E ms \in 0..MaxAutoClearMs : errorHandler = InitialErrorHandler(ms)

NextErrors ==
  \/ ClearErrorCalled
  \/ \E m \in SetErrorMessages, c \in SetErrorCodes : SetErrorCalled(m, c)
  \/ \E e \in ErrorValues, cb \in BOOLEAN : HandleErrorCalled(e, cb)
  \/ AutoClearTimerFires
  \/ TimePasses

SpecErrors == InitErrors /\ [][NextErrors]_vars

\* the host runs due timers and its clock advances
FairErrors == WF_vars(AutoClearTimerFires) /\ WF_vars(TimePasses)

SpecErrorsFair == SpecErrors /\ FairErrors

----------------------------------------------------------------------------
(* useAuth: startLogin, cancelLogin and logout called directly, with the   *)
(* events of each attempt's WebSocket and login-timeout timer (SpecLogin). *)

\* cleanupWebSocket: close the active socket, if any, and forget it
cleanupWebSocket(L) ==
  IF L.activeWebSocket # 0
    THEN [L EXCEPT !.socket[L.activeWebSocket] = "closed", !.activeWebSocket = 0]
    ELSE L

\* resolve / reject of attempt a's promise: the first call settles it
SettleLogin(L, a, outcome) ==
  IF L.promise[a] \in {"pending", "fetching"} THEN [L EXCEPT !.promise[a] = outcome] ELSE L

\* the cleanup closure of attempt a: clearTimeout(timeoutId), cleanupWebSocket(),
\* isLoading = false
LoginCleanup(L, a) ==
  [cleanupWebSocket([L EXCEPT !.timer[a] = IF @ = "armed" THEN "cleared" ELSE @])
     EXCEPT !.isLoading = FALSE]

\* startLogin when new WebSocket(...) succeeds (connects = TRUE) or throws
startLogin(L, connects) ==
  LET a  == L.attempts + 1
      L1 == cleanupWebSocket([L EXCEPT !.isLoading = TRUE, !.error = "none",
                                       !.attempts = a, !.promise[a] = "pending"])
      L2 == [L1 EXCEPT !.timer[a] = "armed"]
  IN  IF connects
        THEN [L2 EXCEPT !.socket[a] = "open", !.activeWebSocket = a]
        ELSE SettleLogin(LoginCleanup([L2 EXCEPT !.error = "Failed to connect"], a),
                         a, "rejected")

\* cancelLogin as the source has it; cancelled records the attempts that were
\* under way
cancelLogin(L) ==
  [cleanupWebSocket(L) EXCEPT
     !.isLoading = FALSE, !.error = "none",
     !.cancelled = @ \cup { a \in LoginAttempts : L.promise[a] \in {"pending", "fetching"} }]

\* logout: the token is removed, the socket closed, the state cleared
logout(L) ==
  [cleanupWebSocket(L) EXCEPT !.isAuthenticated = FALSE, !.isLoading = FALSE,
                              !.error = "none"]

\* the callback of attempt a's login-timeout timer
LoginTimeout(L, a) ==
  SettleLogin([cleanupWebSocket([L EXCEPT !.timer[a] = "fired",
                                          !.error = "Login session timed out"])
                 EXCEPT !.isLoading = FALSE],
              a, "rejected")

\* ws.onmessage of attempt a for a message with the given status, up to the
\* await of fetchAccountInfo on success
OnMessage(L, a, status) ==
  CASE status = "success" -> [L EXCEPT !.promise[a] = IF @ = "pending" THEN "fetching" ELSE @]
    [] status = "expired" ->
         SettleLogin(LoginCleanup([L EXCEPT !.error = "Login session expired"], a),
                     a, "rejected")
    [] status = "error" ->
         SettleLogin(LoginCleanup([L EXCEPT !.error = "Login failed"], a), a, "rejected")
    [] OTHER -> L

\* ws.onmessage of attempt a after fetchAccountInfo returned
AfterAccountInfo(L, a) ==
  SettleLogin(LoginCleanup([L EXCEPT !.isAuthenticated = TRUE], a), a, "resolved")

\* ws.onerror of attempt a
OnSocketError(L, a) ==
  SettleLogin(LoginCleanup([L EXCEPT !.error = "Connection error"], a), a, "rejected")

\* ws.onclose of attempt a
OnSocketClose(L, a) ==
  [L EXCEPT !.socket[a] = "closed",
            !.activeWebSocket = IF @ = a THEN 0 ELSE @]

LoginCalled(L, op, a) == [L EXCEPT !.lastCall = [op |-> op, attempt |-> a]]

loginFrame ==
  <<store, aborted, nextCtl, currentView, authToken, errorState, autoClearTimeout,
    pendingExports, runs, retry, controller, lastOp, registry, timeoutCall,
    errorHandler, host>>

StartLoginCalled(connects) ==
  /\ login.attempts < MaxLogins
  /\ login' = LoginCalled(startLogin(login, connects), "startLogin", login.attempts + 1)
  /\ UNCHANGED loginFrame

CancelLoginCalled ==
  /\ login' = LoginCalled(cancelLogin(login), "cancelLogin", 0)
  /\ UNCHANGED loginFrame

LogoutCalled ==
  /\ login' = LoginCalled(logout(login), "logout", 0)
  /\ UNCHANGED loginFrame

\* the server sends a message on the socket of attempt a
SocketMessage(a, status) ==
  /\ login.socket[a] = "open"
  /\ login' = LoginCalled(OnMessage(login, a, status), "message", a)
  /\ UNCHANGED loginFrame

\* fetchAccountInfo, awaited by the message handler of attempt a, returns
AccountInfoReturns(a) ==
  /\ login.promise[a] = "fetching"
  /\ login' = LoginCalled(AfterAccountInfo(login, a), "accountInfo", a)
  /\ UNCHANGED loginFrame

\* the socket of attempt a fails
SocketError(a) ==
  /\ login.socket[a] = "open"
  /\ login' = LoginCalled(OnSocketError(login, a), "socketError", a)
  /\ UNCHANGED loginFrame

\* the server closes the socket of attempt a
SocketCloses(a) ==
  /\ login.socket[a] = "open"
  /\ login' = LoginCalled(OnSocketClose(login, a), "socketClose", a)
  /\ UNCHANGED loginFrame

\* the login-timeout timer of attempt a fires
LoginTimerFires(a) ==
  /\ login.timer[a] = "armed"
  /\ login' = LoginCalled(LoginTimeout(login, a), "timer", a)
  /\ UNCHANGED loginFrame

NextLogin ==
  \/ \E connects \in BOOLEAN : StartLoginCalled(connects)
  \/ CancelLoginCalled
  \/ LogoutCalled
  \/ \E a \in LoginAttempts : \E status \in {"success", "expired", "error", "pending"} :
       SocketMessage(a, status)
  \/ \E a \in LoginAttempts : AccountInfoReturns(a)
  \/ \E a \in LoginAttempts : SocketError(a)
  \/ \E a \in LoginAttempts : SocketCloses(a)
  \/ \E a \in LoginAttempts : LoginTimerFires(a)

SpecLogin == Init /\ [][NextLogin]_vars

----------------------------------------------------------------------------
(* Properties of the cleanup utilities (SpecCleanup)                       *)

Reverse(q) == [k \in 1..Len(q) |-> q[Len(q) + 1 - k]]

\* C26: whatever was registered and whichever of the registered functions
\* throw, cleanup() invokes every registered function exactly once, in reverse
\* registration order, lets no exception escape, and leaves size() = 0; a
\* cleanup() on the emptied registry invokes nothing.
C26_CleanupRunsAllOnce ==
  [][RegistryCleanup =>
       /\ registry'.lastInvoked = Reverse(registry.cleanupFns)
       /\ registry'.invoked = registry.invoked \o Reverse(registry.cleanupFns)
       /\ ~registry'.propagated
       /\ size(registry') = 0
       /\ registry'.logged = registry.logged
            + Cardinality({ k \in 1..Len(registry.cleanupFns) :
                              registry.cleanupFns[k] \in registry.throwing })
       /\ (registry.calls > 0 /\ size(registry) = 0) =>
            registry'.invoked = registry.invoked ]_vars

C26_Witness ==
  /\ registry.throwing = {2}
  /\ registry.calls = 2
  /\ registry.invoked = <<2, 1, 2>>
  /\ registry.lastInvoked = << >>
  /\ registry.logged = 2
  /\ size(registry) = 0

\* C27: withTimeout settles exactly once, with what happens first.  If the
\* wrapped operation settles first, its value or error is the result, the timer
\* is cleared and onTimeout is never invoked; if the timer fires first,
\* onTimeout (if given) is invoked exactly once and the result is an error of
\* the timeout class, not a cancellation error; once settled, nothing changes
\* the result, and a later settlement of the operation invokes nothing.
C27_WithTimeoutRace ==
  /\ [](LET T == timeoutCall
        IN  /\ T.pc = "pending" => (T.timer = "armed" /\ T.operation = "pending")
            /\ T.pc = "settled" => (T.timer \in {"cleared", "fired"} /\ T.result # "none")
            /\ T.timer = "cleared" =>
                 /\ T.result = T.operation
                 /\ T.result \in OperationOutcomes
                 /\ T.onTimeoutCalls = 0
            /\ T.timer = "fired" =>
                 /\ T.result = "Timeout"
                 /\ ErrInfo(T.result).cls = "TimeoutError"
                 /\ mapErrorToDetails(T.result).code = "TIMEOUT"
                 /\ ~isCancellationError(T.result)
                 /\ T.onTimeoutCalls = (IF T.hasOnTimeout THEN 1 ELSE 0)
            /\ T.operation \in OperationOutcomes => T.timer # "armed")
  /\ [][timeoutCall.pc = "settled" =>
          /\ timeoutCall'.pc = "settled"
          /\ timeoutCall'.result = timeoutCall.result
          /\ timeoutCall'.timer = timeoutCall.timer
          /\ timeoutCall'.onTimeoutCalls = timeoutCall.onTimeoutCalls]_vars

C27_Witness ==
  /\ timeoutCall.timer = "fired"
  /\ timeoutCall.hasOnTimeout
  /\ timeoutCall.onTimeoutCalls = 1
  /\ timeoutCall.operation = "value"
  /\ timeoutCall.settleCalls = 2
  /\ timeoutCall.result = "Timeout"

----------------------------------------------------------------------------
(* Properties of the job store, the pipeline and its caller (Spec)         *)

TerminalStatus == {"completed", "failed", "cancelled"}

StatusEdges ==
  { <<"pending", "processing">>, <<"processing", "completed">>,
    <<"pending", "failed">>, <<"processing", "failed">>,
    <<"pending", "cancelled">>, <<"processing", "cancelled">> }

\* C1: within a batch a job's status changes only along pending->processing,
\* processing->completed, pending|processing->failed and
\* pending|processing->cancelled; a terminal status never changes again.
C1_StatusTransitions ==
  [][\A k \in 1..Len(store.jobs) :
       (k <= Len(store'.jobs) /\ store'.jobs[k].batch = store.jobs[k].batch)
         => \/ store'.jobs[k].status = store.jobs[k].status
            \/ <<store.jobs[k].status, store'.jobs[k].status>> \in StatusEdges]_vars

\* C2: once the batch's token is signalled the pipeline of that batch emits no
\* further progress event (starts no further stage: every stage begins with
\* its event), yields no further result, and does not end normally (it ends
\* with an error).
C2_NoWorkAfterCancel ==
  [][\A r \in Runs :
       r \in aborted =>
         /\ runs'[r].lastEvent = runs[r].lastEvent
         /\ runs'[r].yielded = runs[r].yielded
         /\ runs[r].outcome = "none" => runs'[r].outcome # "completed"]_vars

HistoryEntriesOf(job) ==
  { n \in 1..Len(store.history) :
      store.history[n].id = job.id /\ store.history[n].batch = job.batch }

HistoryOncePerJob ==
  /\ \A n, m \in 1..Len(store.history) :
       (n # m) => ~(/\ store.history[n].id = store.history[m].id
                    /\ store.history[n].batch = store.history[m].batch)
  /\ \A k \in 1..Len(store.jobs) :
       LET job == store.jobs[k]
       IN  IF job.status \in TerminalStatus
             THEN /\ Cardinality(HistoryEntriesOf(job)) = 1
                  /\ \A n \in HistoryEntriesOf(job) : store.history[n].status = job.status
             ELSE HistoryEntriesOf(job) = {}

\* C3: a job gets exactly one history entry, when it reaches a terminal status
\* and with that status; no job ever has two entries; entries are inserted at
\* the head and existing entries keep their order.
C3_HistoryExactlyOnce ==
  [] HistoryOncePerJob /\ [][IsSuffix(store.history, store'.history)]_vars

\* C9: a remote call (processing or downloading stage) that fails with a
\* retryable error is retried: no batch whose token is not signalled ends with
\* a retryable error of a remote stage after a single attempt of the call.
C9_RemoteCallsRetried ==
  \A r \in Runs :
    ~(/\ runs[r].pc = "done"
      /\ r \notin aborted
      /\ runs[r].lastEvent.stage \in {"processing", "downloading"}
      /\ runs[r].outcome \notin {"none", "completed"}
      /\ isRetryableError(runs[r].outcome)
      /\ runs[r].attempts = 1)

\* C10: the pipeline yields the items' results in input order, each once: the
\* results so far are the ids of the items before the current one, and when
\* no stage failed and the token was not signalled the generator returns right
\* after the n-th result, having yielded exactly the n input ids.
C10_ResultsInInputOrder ==
  \A r \in Runs :
    LET run == runs[r]
    IN  /\ IsPrefix(run.yielded, run.items)
        /\ run.outcome = "completed" => run.yielded = run.items
        /\ (run.outcome = "none" /\ run.pc # "idle") => Len(run.yielded) = run.i - 1
        /\ (run.pc # "idle" /\ run.yielded = run.items) => run.outcome = "completed"

C10_Witness ==
  \E r \in Runs :
    /\ r \notin aborted
    /\ runs[r].outcome = "completed"
    /\ Len(runs[r].items) = MaxItems
    /\ runs[r].yielded = runs[r].items

\* the ProcessingStage values, in the order of the pipeline's code
Stages == <<"exporting", "processing", "downloading", "applying", "complete">>

StageSet == { Stages[p] : p \in 1..Len(Stages) }

\* the stages during which the pipeline awaits a collaborator
Awaiting == {"exporting", "processing", "downloading", "applying"}

\* C11: processing is sequential and consumer-driven: every progress event of
\* item n+1 (each collaborator call directly follows its stage's event) comes
\* after the yield of item n's result and after the consumer's request for the
\* next result; the only item in flight is the one after the last result.
C11_SequentialConsumerDriven ==
  \A r \in Runs :
    LET ev == runs[r].events
    IN  /\ \A p \in 1..Len(ev) :
             (ev[p].stage \in StageSet /\ ev[p].item > 1) =>
               \E y, n \in 1..(p - 1) :
                 /\ y < n
                 /\ ev[y] = [item |-> ev[p].item - 1, stage |-> "yield"]
                 /\ ev[n] = [item |-> ev[p].item - 1, stage |-> "next"]
        /\ runs[r].pc \in Awaiting =>
             /\ runs[r].i = Len(runs[r].yielded) + 1
             /\ ev[Len(ev)] = [item |-> runs[r].i, stage |-> runs[r].pc]

C11_Witness ==
  \E r \in Runs :
    /\ runs[r].pc = "processing"
    /\ runs[r].i = 2
    /\ runs[r].yielded = <<runs[r].items[1]>>

\* the progress events of item n in a trace
ItemEvents(ev, n) == SelectSeq(ev, LAMBDA e : e.item = n /\ e.stage \in StageSet)

\* C12: the progress events of an item are a prefix of exporting, processing,
\* downloading, applying, complete; its result is yielded only after its
\* complete event; the events of different items are not interleaved.
C12_StageOrder ==
  \A r \in Runs :
    LET ev == runs[r].events
    IN  /\ \A n \in ItemIds :
             /\ Len(ItemEvents(ev, n)) <= Len(Stages)
             /\ \A p \in 1..Len(ItemEvents(ev, n)) : ItemEvents(ev, n)[p].stage = Stages[p]
        /\ \A p \in 1..Len(ev) :
             ev[p].stage = "yield" =>
               \E q \in 1..(p - 1) : ev[q] = [item |-> ev[p].item, stage |-> "complete"]
        /\ \A p, q \in 1..Len(ev) : p < q => ev[p].item <= ev[q].item

C12_Witness ==
  \E r \in Runs :
    /\ Len(ItemEvents(runs[r].events, 1)) = Len(Stages)
    /\ Len(ItemEvents(runs[r].events, 2)) = Len(Stages)
    /\ runs[r].yielded = runs[r].items

\* the pipeline of the run has ended with an error
Failed(run) == run.outcome \notin {"none", "completed"}

\* the store holds the job of batch r for item k of the run, completed, and
\* the history holds its completed entry
CompletedWithEntry(s, r, k) ==
  /\ k <= Len(s.jobs)
  /\ s.jobs[k].id = runs[r].items[k]
  /\ s.jobs[k].status = "completed"
  /\ \E n \in 1..Len(s.history) :
       s.history[n] = [id |-> s.jobs[k].id, batch |-> r, status |-> "completed", error |-> NoError]

\* C13: a pipeline that fails at item N ends there, with the error it keeps
\* from then on: nothing of the run changes afterwards (no call, no event,
\* no result), no event of an item after N was emitted, and in the step of the
\* failure the jobs of the items before N are still completed, with their
\* history entries.
C13_FailFastNoRollback ==
  [][\A r \in Runs :
       /\ Failed(runs[r]) => runs'[r] = runs[r]
       /\ (runs[r].outcome = "none" /\ Failed(runs'[r])) =>
            /\ runs'[r].pc = "done"
            /\ \A p \in 1..Len(runs'[r].events) : runs'[r].events[p].item <= runs'[r].i
            /\ Len(runs'[r].yielded) = runs'[r].i - 1
            /\ \A k \in 1..(runs'[r].i - 1) :
                 (k <= Len(store'.jobs) /\ store'.jobs[k].batch = r)
                   => CompletedWithEntry(store, r, k)' ]_vars

C13_Witness ==
  \E r \in Runs :
    /\ runs[r].pc = "done"
    /\ runs[r].outcome = "ApiServer"
    /\ runs[r].i = 2
    /\ r \notin aborted
    /\ CompletedWithEntry(store, r, 1)
    /\ store.jobs[2].status = "failed"

\* the error state handleError derives from e with the error classifier
ClassifiedErrorState(e) ==
  [message |-> mapErrorToDetails(e).message, code |-> mapErrorToDetails(e).code,
   recoverable |-> mapErrorToDetails(e).recoverable, hasError |-> TRUE]

\* C14: when the pipeline of a batch whose token is not signalled ends with an
\* error that is not a cancellation error, in that step the job of the item in
\* flight becomes failed with the error text, exactly one failed history entry
\* is prepended for it, no other job changes its status, and the error state
\* holds the message the error classifier derives from the error.
C14_FailureRecorded ==
  [][\A r \in Runs :
       (/\ runs[r].outcome = "none"
        /\ Failed(runs'[r])
        /\ ~isCancellationError(runs'[r].outcome)
        /\ r \notin aborted)
         => LET e == runs'[r].outcome
                k == runs'[r].i
            IN  /\ Len(store'.jobs) = Len(store.jobs)
                /\ store'.jobs[k].status = "failed"
                /\ store'.jobs[k].error = e
                /\ store'.history =
                     <<[id |-> runs'[r].items[k], batch |-> r, status |-> "failed", error |-> e]>>
                       \o store.history
                /\ \A j \in 1..Len(store.jobs) :
                     j # k => store'.jobs[j].status = store.jobs[j].status
                /\ errorState' = ClassifiedErrorState(e) ]_vars

\* C15: a remote call whose request timeout fires while the batch token is not
\* signalled fails with an error of the timeout class: the classifier maps it
\* to TIMEOUT (not CANCELLED), isCancellationError is false for it, and the
\* error state shows it to the user.
C15_TimeoutIsNotCancellation ==
  [][\A r \in Runs :
       (~runs[r].timedOut /\ runs'[r].timedOut /\ r \notin aborted')
         => /\ ErrInfo(runs'[r].outcome).cls = "TimeoutError"
            /\ mapErrorToDetails(runs'[r].outcome).code = "TIMEOUT"
            /\ ~isCancellationError(runs'[r].outcome)
            /\ errorState'.hasError
            /\ errorState'.code = "TIMEOUT" ]_vars

\* C16: when the batch token is signalled while a removeBackground or
\* downloadMask request is in flight, the signal of the request is aborted, and
\* the next step of the pipeline ends it with an AbortError, without a further
\* progress event (no next stage) and without a result.
C16_InFlightRequestAborted ==
  [][\A r \in Runs :
       (runs[r].pc \in {"processing", "downloading"} /\ r \in aborted)
         => /\ RequestSignalAborted(r)
            /\ runs'[r] # runs[r] =>
                 /\ runs'[r].pc = "done"
                 /\ IsAbortError(runs'[r].outcome)
                 /\ runs'[r].events = runs[r].events
                 /\ runs'[r].yielded = runs[r].yielded ]_vars

C16_Witness ==
  \E r \in Runs :
    /\ r \in aborted
    /\ runs[r].pc = "done"
    /\ runs[r].lastEvent.stage = "downloading"
    /\ IsAbortError(runs[r].outcome)
    /\ ~runs[r].timedOut

\* C18: a batch started after an earlier batch failed or was cancelled is
\* processed like a first batch.  While its pipeline awaits a collaborator and
\* its token is not signalled, the store is processing under the batch's own
\* controller, the processing view is shown and the job of the item in flight
\* is processing, as for a first batch; and the batch never fails because an
\* export of an earlier batch is still pending.
C18_FreshBatchLikeFirst ==
  \A r \in Runs :
    /\ runs[r].outcome # "ExportPending"
    /\ (runs[r].pc \in Awaiting /\ r \notin aborted) =>
         /\ store.status = "processing"
         /\ store.abortController = r
         /\ currentView = "processing"
         /\ runs[r].i <= Len(store.jobs)
         /\ store.jobs[runs[r].i].id = runs[r].items[runs[r].i]
         /\ store.jobs[runs[r].i].batch = r
         /\ store.jobs[runs[r].i].status = "processing"

\* C20: at every moment at most one job of the store has status processing.
C20_OneJobProcessing ==
  Cardinality({ k \in 1..Len(store.jobs) : store.jobs[k].status = "processing" }) <= 1

\* for a batch of n items the mapping stays within 0..100 and does not fall
\* from one value of `current` to the next
MappingMonotone(n) ==
  \A c \in 0..(n - 1) :
    /\ ProgressPercent(c, n) \in 0..100
    /\ ProgressPercent(c + 1, n) \in 0..100
    /\ ProgressPercent(c, n) <= ProgressPercent(c + 1, n)

\* the value run r reported last, and the job of the store it was reported for
LastReported(run) == run.progressLog[Len(run.progressLog)]

ReachesRemoteCall(r) ==
  /\ runs[r].pc = "exporting"
  /\ Len(runs'[r].events) = Len(runs[r].events) + 1
  /\ runs'[r].lastEvent = [item |-> runs[r].i, stage |-> "processing"]

\* C24: when the token provider returns null as the pipeline reaches the
\* remote call, the pipeline fails in the processing stage of the item in
\* flight (the first item when the batch starts without a token) with an
\* authentication error classified SESSION_EXPIRED: no request is issued (the
\* run ends in the same step, it never awaits the network), the call is
\* attempted once, and the downloading stage does not start.
C24_NoTokenFailsAtOnce ==
  [][\A r \in Runs :
       (ReachesRemoteCall(r) /\ ~authToken) =>
         /\ runs'[r].pc = "done"
         /\ isAuthError(runs'[r].outcome)
         /\ mapErrorToDetails(runs'[r].outcome).code = "SESSION_EXPIRED"
         /\ runs'[r].attempts = 1
         /\ runs'[r].i = runs[r].i
         /\ \A p \in 1..Len(runs'[r].events) :
              runs'[r].events[p] # [item |-> runs[r].i, stage |-> "downloading"]
         /\ ~runs'[r].timedOut ]_vars

C24_Witness ==
  \E r \in Runs :
    /\ ~authToken
    /\ r \notin aborted
    /\ runs[r].pc = "done"
    /\ runs[r].outcome = "ApiAuth"
    /\ runs[r].i = 1
    /\ runs[r].attempts = 1
    /\ runs[r].events = <<[item |-> 1, stage |-> "exporting"], [item |-> 1, stage |-> "processing"]>>

\* the runs awaiting an export of image id
ExportingRuns(id) ==
  { r \in Runs : runs[r].pc = "exporting" /\ runs[r].items[runs[r].i] = id }

\* C25: at any time at most one export is pending per item id.  exportImage(id)
\* called while an export of the same id is pending rejects at once (the
\* pipeline that called it ends in the same step), sends no message to the
\* host and leaves the pending exports as they are; an export whose message
\* timeout fires rejects with an error of the timeout class, and is no longer
\* pending.
C25_OneExportPerId ==
  /\ [](\A id \in ItemIds :
          /\ Cardinality({ k \in 1..Len(pendingExports) : pendingExports[k] = id }) <= 1
          /\ Cardinality(ExportingRuns(id)) <= 1
          /\ (\E k \in 1..Len(pendingExports) : pendingExports[k] = id) <=> ExportingRuns(id) # {})
  /\ [][\A r \in Runs :
          /\ (runs[r].outcome = "none" /\ runs'[r].outcome = "ExportPending") =>
               /\ runs'[r].pc = "done"
               /\ runs'[r].exportRequests = runs[r].exportRequests
               /\ pendingExports' = pendingExports
               /\ \E k \in 1..Len(pendingExports) :
                    pendingExports[k] = runs'[r].items[runs'[r].i]
               /\ \A q \in Runs \ {r} : runs'[q] = runs[q]
          /\ ExportTimesOut(r) =>
               /\ ErrInfo(runs'[r].outcome).cls = "TimeoutError"
               /\ ~isCancellationError(runs'[r].outcome)
               /\ runs'[r].pc = "done"
               /\ pendingExports' = RemovePending(pendingExports, runs[r].items[runs[r].i]) ]_vars

C25_Witness ==
  \E r, q \in Runs :
    /\ r # q
    /\ runs[r].outcome = "ExportPending"
    /\ runs[r].exportRequests = << >>
    /\ runs[q].pc = "exporting"
    /\ runs[q].items[runs[q].i] = runs[r].items[runs[r].i]
    /\ pendingExports = <<runs[q].items[runs[q].i]>>

\* a step of the pipeline of batch r alone, taken after batch r was cancelled
OldPipelineStep(r) ==
  /\ r \in aborted
  /\ runs'[r] # runs[r]
  /\ \A q \in Runs \ {r} : runs'[q] = runs[q]

\* batch q is the newest batch, its token is not signalled and its pipeline
\* awaits a collaborator
NewBatchRunning(q) ==
  /\ q = nextCtl
  /\ q \notin aborted
  /\ runs[q].pc \in Awaiting

\* C37: when a new batch is started before the pipeline of a cancelled batch
\* has seen the cancellation, no later step of the old pipeline (a progress
\* event, a result, its failure handling) changes the store of the new batch:
\* the job records, the status and the token stay as they are, and the new
\* batch stays processing and cancellable under its own token.
C37_OldPipelineLeavesNewBatch ==
  [][\A r, q \in Runs :
       (r < q /\ OldPipelineStep(r) /\ NewBatchRunning(q)) =>
         /\ store' = store
         /\ canCancel(store')
         /\ store'.abortController = q]_vars

----------------------------------------------------------------------------
(* Properties of the plugin bridge (SpecHost)                              *)

\* the step delivers the host's 'error' answer to a creation request
CreationErrorDelivered ==
  /\ host'.lastMessage.request = "create-image-from-data"
  /\ host'.lastMessage.type = "error"
  /\ host'.creations # host.creations

\* C38: image creation is fire-and-forget: the host's 'error' message for the
\* creation of an item's image rejects no pending export and fails no batch:
\* the pending exports, the pipelines and the store stay as they are.
C38_CreationErrorHarmless ==
  [][CreationErrorDelivered =>
       /\ pendingExports' = pendingExports
       /\ runs' = runs
       /\ store' = store]_vars

\* the exports that are unsettled: batch r awaits the export of its current item
UnsettledExports == { CurrentId(Cur, r) : r \in { q \in Runs : runs[q].pc = "exporting" } }

\* the step delivers a host answer to an export request that has already
\* ended and whose id has no pending export
LateResponse ==
  /\ host'.lastMessage.request = "export-image"
  /\ host'.lastMessage.type = "image-data"
  /\ host'.exports # host.exports
  /\ host'.lastMessage.id \notin PendingIds(pendingExports)

----------------------------------------------------------------------------
(* Properties of the login flow (SpecLogin)                                *)

\* the step runs the login-timeout callback of an attempt that was cancelled
CancelledTimerFires(a) ==
  /\ a \in login.cancelled
  /\ login.timer[a] = "armed"
  /\ login'.timer[a] = "fired"

\* C40: after cancelLogin() the cancelled attempt has no further effect on
\* the auth state: its login-timeout timer sets no error, leaves isLoading as
\* it is, and closes no WebSocket of a later attempt.
C40_CancelledLoginSilent ==
  [][\A a \in LoginAttempts :
       CancelledTimerFires(a) =>
         /\ login'.error = login.error
         /\ login'.isLoading = login.isLoading
         /\ login'.socket = login.socket
         /\ login'.activeWebSocket = login.activeWebSocket]_vars

\* the socket part alone: the timer of a cancelled attempt closes no socket
C40_CancelledTimerKeepsSockets ==
  [][\A a \in LoginAttempts :
       CancelledTimerFires(a) => login'.socket = login.socket]_vars

----------------------------------------------------------------------------
(* Properties of the store's and the controller's operations (SpecStore)   *)

\* the history entry cancel() writes for a job
CancelledEntry(job) == [id |-> job.id, batch |-> job.batch, status |-> "cancelled", error |-> NoError]

\* C17: cancel() on an active batch (the store holds its controller), in one
\* step: every pending or processing job becomes cancelled, every other job is
\* left as it is, the batch's token is signalled, the overall status becomes
\* cancelled, and one cancelled history entry per affected job is prepended,
\* the entry of a later job before that of an earlier one; a cancel() that
\* directly follows a cancel() adds no entry.
C17_CancelAtomic ==
  [][(StoreCancel /\ store.abortController # NoController) =>
       LET hit == Cancellable(store)
           new == Len(store'.history) - Len(store.history)
       IN  /\ Len(store'.jobs) = Len(store.jobs)
           /\ \A k \in 1..Len(store.jobs) :
                IF k \in hit
                  THEN store'.jobs[k].status = "cancelled" /\ store'.jobs[k].id = store.jobs[k].id
                  ELSE store'.jobs[k] = store.jobs[k]
           /\ store.abortController \in aborted'
           /\ store'.abortController = store.abortController
           /\ store'.status = "cancelled"
           /\ new = Cardinality(hit)
           /\ IsSuffix(store.history, store'.history)
           /\ \A k \in hit :
                Cardinality({ n \in 1..new : store'.history[n] = CancelledEntry(store.jobs[k]) }) = 1
           /\ \A k1, k2 \in hit : \A n1, n2 \in 1..new :
                (/\ k1 < k2
                 /\ store'.history[n1] = CancelledEntry(store.jobs[k1])
                 /\ store'.history[n2] = CancelledEntry(store.jobs[k2])) => n2 < n1
           /\ lastOp.op = "cancel" => store'.history = store.history ]_vars

C17_Witness ==
  /\ lastOp = [op |-> "cancel", repeated |-> TRUE]
  /\ store.status = "cancelled"
  /\ store.abortController \in aborted
  /\ Len(store.jobs) = 2
  /\ store.jobs[1].status = "completed"
  /\ store.jobs[2].status = "cancelled"
  /\ store.history = <<CancelledEntry(store.jobs[2]),
                       [id |-> store.jobs[1].id, batch |-> store.jobs[1].batch,
                        status |-> "completed", error |-> NoError]>>

\* C19: starting a batch while the token of an earlier batch is still held
\* signals the earlier token and returns a fresh, unsignalled one; for the
\* store's startBatch and for useProcessingController.startProcessing.
C19_NewBatchAbortsEarlier ==
  [][/\ (/\ store.abortController # NoController
          /\ store'.abortController \notin {NoController, store.abortController})
           => /\ store.abortController \in aborted'
              /\ store'.abortController \notin aborted'
     /\ (/\ controller.abortController # NoController
          /\ controller'.abortController \notin {NoController, controller.abortController})
           => /\ controller.abortController \in controller'.aborted
              /\ controller'.abortController \notin controller'.aborted ]_vars

\* v is x = num / den rounded to the nearest integer, halves upwards
IsRounded(v, num, den) == 2 * den * v - den <= 2 * num /\ 2 * num < 2 * den * v + den

\* the progress of the job currently processing, 0 if there is none
ActiveJobProgress(s) ==
  IF \A k \in 1..Len(s.jobs) : s.jobs[k].status # "processing" THEN 0
  ELSE s.jobs[currentJobIndex(s)].progress

C23_FinishResetFrame ==
  [][/\ StoreFinish =>
          /\ store'.status = "idle"
          /\ store'.abortController = NoController
          /\ store'.jobs = store.jobs
          /\ store'.history = store.history
          /\ aborted' = aborted
     /\ StoreReset =>
          /\ store'.status = "idle"
          /\ store'.abortController = NoController
          /\ store'.jobs = << >>
          /\ store'.history = store.history
          /\ aborted' = aborted]_vars

\* reached by finish() only: idle with jobs, the batch's token not signalled
C23_Witness ==
  /\ store.status = "idle"
  /\ store.abortController = NoController
  /\ Len(store.jobs) = 2
  /\ store.jobs[1].status = "completed"
  /\ store.jobs[2].status = "processing"
  /\ Len(store.history) = 1
  /\ nextCtl = 1
  /\ aborted = {}

----------------------------------------------------------------------------
(* Properties of withRetry (SpecRetry)                                     *)

AllRaisedRetryable ==
  \A k \in 1..Len(retry.raised) : isRetryable(retry.opts.policy, retry.raised[k])

\* C4: an operation that always fails with a retryable error, the token never
\* signalled: fn is invoked exactly maxAttempts times and withRetry then throws
\* the error of the last invocation (no wait follows the last attempt).
C4_ExhaustsAttempts ==
  /\ retry.calls <= retry.opts.maxAttempts
  /\ retry.pc = "sleeping" => retry.calls < retry.opts.maxAttempts
  /\ (/\ retry.pc = "thrown"
      /\ ~SignalAborted(retry)
      /\ Len(retry.raised) = retry.calls
      /\ AllRaisedRetryable)
       => /\ retry.calls = retry.opts.maxAttempts
          /\ retry.result = retry.raised[Len(retry.raised)]

C4_Witness ==
  /\ retry.pc = "thrown"
  /\ ~SignalAborted(retry)
  /\ AllRaisedRetryable
  /\ retry.opts.maxAttempts = MaxAttemptsBound
  /\ retry.calls = MaxAttemptsBound
  /\ Len(retry.raised) = MaxAttemptsBound
  /\ retry.result = retry.raised[MaxAttemptsBound]

\* C5: a token already signalled when withRetry is called: fn is never
\* invoked, onRetry is never called, withRetry throws an AbortError.
C5_PreSignalled ==
  retry.abortedAtCall =>
    /\ retry.pc = "thrown"
    /\ IsAbortError(retry.result)
    /\ retry.calls = 0
    /\ retry.onRetryLog = << >>
    /\ retry.waits = 0

C5_Witness ==
  retry.abortedAtCall /\ retry.pc = "thrown" /\ retry.calls = 0

\* C6: onRetry is called and a wait begins only if attempt < maxAttempts, the
\* error is retryable and the token is not signalled at that moment.
C6_RetryOnlyIfNotSignalled ==
  /\ \A k \in 1..Len(retry.onRetryLog) :
       /\ retry.onRetryLog[k].attempt < retry.opts.maxAttempts
       /\ isRetryable(retry.opts.policy, retry.onRetryLog[k].error)
       /\ ~retry.onRetryLog[k].signalled
  /\ retry.waits = Len(retry.onRetryLog)

\* C7: a token signalled during the backoff wait ends the wait in the same
\* step with an AbortError, and fn is not invoked again.
C7_WaitIsCancellable ==
  [][/\ (retry.pc = "sleeping" /\ SignalAborted(retry'))
          => /\ retry'.pc = "thrown"
             /\ IsAbortError(retry'.result)
             /\ retry'.calls = retry.calls
     /\ retry.pc = "thrown" => retry'.calls = retry.calls]_vars

C7_Witness ==
  /\ retry.pc = "thrown"
  /\ IsAbortError(retry.result)
  /\ SignalAborted(retry)
  /\ retry.waits >= 1
  /\ retry.calls = retry.waits

\* the error is non-retryable under the policy the caller chose
NonRetryable(R, e) == R.opts.policy = "default" /\ ~isRetryableError(e)

\* C8: an attempt failing with a non-retryable error makes withRetry throw
\* that error in the same step: no onRetry, no wait, no further invocation.
C8_NonRetryablePropagates ==
  [][(/\ Len(retry'.raised) = Len(retry.raised) + 1
      /\ NonRetryable(retry, retry'.raised[Len(retry'.raised)]))
       => /\ retry'.pc = "thrown"
          /\ retry'.result = retry'.raised[Len(retry'.raised)]
          /\ retry'.onRetryLog = retry.onRetryLog
          /\ retry'.waits = retry.waits
          /\ retry'.calls = retry.calls]_vars

C8_Witness ==
  /\ retry.pc = "thrown"
  /\ retry.raised # << >>
  /\ NonRetryable(retry, retry.raised[Len(retry.raised)])
  /\ retry.result = retry.raised[Len(retry.raised)]
  /\ retry.attempt < retry.opts.maxAttempts
  /\ retry.calls = 2

\* b * m^(k-1), as the k-th term of the geometric sequence starting at b
GeometricTerm(b, m, k) ==
  LET f[n \in 1..k] == IF n = 1 THEN b ELSE m * f[n - 1]
  IN  f[k]

\* the smaller of a and b
Least(a, b) == CHOOSE d \in {a, b} : d <= a /\ d <= b

\* C28: without jitter, the k-th retry (after attempt k) passes to onRetry, and
\* waits, min(baseDelay * multiplier^(k-1), maxDelay); the delays never exceed
\* maxDelay and, the multiplier being at least 1, never decrease from one retry
\* to the next.
C28_BackoffDelays ==
  ~retry.opts.jitter =>
    /\ \A k \in 1..Len(retry.onRetryLog) :
         /\ retry.onRetryLog[k].attempt = k
         /\ retry.onRetryLog[k].delay =
              Least(GeometricTerm(retry.opts.baseDelay, retry.opts.multiplier, k),
                    retry.opts.maxDelay)
         /\ retry.onRetryLog[k].delay <= retry.opts.maxDelay
         /\ (k > 1 /\ retry.opts.multiplier >= 1) =>
              retry.onRetryLog[k - 1].delay <= retry.onRetryLog[k].delay
    /\ retry.pc = "sleeping" =>
         /\ Len(retry.onRetryLog) = retry.attempt
         /\ retry.delay = retry.onRetryLog[retry.attempt].delay
    /\ Len(retry.onRetryLog) <= retry.opts.maxAttempts - 1

C28_Witness ==
  /\ ~retry.opts.jitter
  /\ retry.opts.maxAttempts = MaxAttemptsBound
  /\ retry.opts.baseDelay = 2
  /\ retry.opts.multiplier = 2
  /\ retry.pc = "sleeping"
  /\ retry.attempt = MaxAttemptsBound - 1
  /\ retry.onRetryLog[1].delay = 2
  /\ retry.onRetryLog[2].delay = retry.opts.maxDelay
  /\ retry.delay = retry.opts.maxDelay

\* what an error denotes, by its class, its HTTP status, or the wording of its
\* message
DenotesAuthFailure(e) ==
  \/ ErrInfo(e).status = 401
  \/ "401" \in ErrInfo(e).lwords
  \/ "unauthorized" \in ErrInfo(e).lwords

DenotesClientError(e) ==
  \/ ErrInfo(e).status \in {400, 403, 404}
  \/ {"400", "403", "404"} \cap ErrInfo(e).lwords # {}

DenotesServerError(e) ==
  \/ ErrInfo(e).status \in 500..599
  \/ {"500", "502", "503", "504"} \cap ErrInfo(e).lwords # {}

DenotesNetworkFailure(e) ==
  \/ ErrInfo(e).status = 0
  \/ {"network", "connection"} \cap ErrInfo(e).lwords # {}
  \/ (ErrInfo(e).cls = "TypeError" /\ "fetch" \in ErrInfo(e).words)

DenotesTimeout(e) ==
  \/ ErrInfo(e).cls = "TimeoutError"
  \/ "timeout" \in ErrInfo(e).lwords

\* the errors fn() rejected with so far
RaisedErrors == { retry.raised[k] : k \in 1..Len(retry.raised) }

\* the errors withRetry decided to retry under the default policy
RetriedByDefault ==
  IF retry.opts.policy = "default"
    THEN { retry.onRetryLog[k].error : k \in 1..Len(retry.onRetryLog) }
    ELSE {}

\* C29: under the default policy isRetryableError is false for every
\* cancellation error and for every error that denotes an authentication
\* failure (401 / unauthorized) or a client-request error (400 / 403 / 404),
\* whatever else its message says, and false for an error of none of the
\* policy's classes; withRetry retries none of them.
C29_NeverRetryable ==
  /\ \A e \in RaisedErrors :
       /\ (isCancellationError(e) \/ DenotesAuthFailure(e) \/ DenotesClientError(e))
            => ~isRetryableError(e)
       /\ ~(\/ isCancellationError(e) \/ DenotesAuthFailure(e) \/ DenotesClientError(e)
            \/ DenotesServerError(e) \/ DenotesNetworkFailure(e) \/ DenotesTimeout(e))
            => ~isRetryableError(e)
  /\ \A e \in RetriedByDefault :
       ~(isCancellationError(e) \/ DenotesAuthFailure(e) \/ DenotesClientError(e))

\* C30: under the default policy every server error (5xx), network or
\* connection failure and timeout is retryable, also in the form the system's
\* own components raise it (the ApiError of a 5xx response, the ApiError with
\* status 0, the TimeoutError of withTimeout): withRetry, with attempts left,
\* retries it instead of throwing it.
C30_AlwaysRetryable ==
  /\ \A e \in RaisedErrors :
       (DenotesServerError(e) \/ DenotesNetworkFailure(e) \/ DenotesTimeout(e))
         => isRetryableError(e)
  /\ (/\ retry.pc = "thrown"
      /\ retry.opts.policy = "default"
      /\ retry.attempt < retry.opts.maxAttempts
      /\ ~IsAbortError(retry.result))
       => ~(\/ DenotesServerError(retry.result)
            \/ DenotesNetworkFailure(retry.result)
            \/ DenotesTimeout(retry.result))

----------------------------------------------------------------------------
(* Properties of the error classifier and the error handler (SpecErrors)   *)

\* the error handleError was last called with, NoError after any other step
Handled == IF errorHandler.lastCall.op = "handleError"
             THEN errorHandler.lastCall.error ELSE NoError

\* the rule chain of the claim, each rule read by what the code tests:
\* cancellation is an AbortError, an auth / credits failure an ApiError with
\* status 401 / 402, an explicit Timeout a TimeoutError, a processing-specific
\* failure an ImageProcessingError or an ApiError the API answered with a
\* status; wording is the set of keywords found in the message
ChainCode(e, wording) ==
  IF IsAbortError(e) THEN "CANCELLED"
  ELSE IF ErrInfo(e).cls = "ApiError" /\ ErrInfo(e).status = 401 THEN "SESSION_EXPIRED"
  ELSE IF ErrInfo(e).cls = "ApiError" /\ ErrInfo(e).status = 402 THEN "INSUFFICIENT_CREDITS"
  ELSE IF ErrInfo(e).cls = "TimeoutError" THEN "TIMEOUT"
  ELSE IF \/ ErrInfo(e).cls = "ImageProcessingError"
          \/ ErrInfo(e).cls = "ApiError" /\ ErrInfo(e).status # 0 THEN "PROCESSING_FAILED"
  ELSE IF "network" \in wording \/ "fetch" \in wording THEN "NETWORK_ERROR"
  ELSE "UNKNOWN"

\* the codes the chain allows for e: network-ish wording read as the code reads
\* it (verbatim) or without regard to case
ChainCodes(e) == {ChainCode(e, ErrInfo(e).words), ChainCode(e, ErrInfo(e).lwords)}

\* the fixed user message of a code
FixedMessage(code) ==
  CASE code = "CANCELLED" -> "Operation was cancelled"
    [] code = "SESSION_EXPIRED" -> "Your session has expired"
    [] code = "INSUFFICIENT_CREDITS" -> "Insufficient credits"
    [] code = "TIMEOUT" -> "The operation timed out"
    [] code = "NETWORK_ERROR" -> "Network error"
    [] OTHER -> "none"

\* C31: the classifier gives every error value the code of the first matching
\* rule of the chain cancellation, auth, credits, explicit Timeout,
\* processing-specific failure, network-ish wording, otherwise UNKNOWN; the
\* user message is the fixed one of the code, except for UNKNOWN and
\* PROCESSING_FAILED, where it is the original message of the error.
C31_ClassifierFollowsChain ==
  Handled # NoError =>
    LET d == mapErrorToDetails(Handled)
    IN  /\ d.code \in ChainCodes(Handled)
        /\ IsError(Handled) =>
             d.message = IF d.code \in {"UNKNOWN", "PROCESSING_FAILED"}
                           THEN MessageOf(Handled) ELSE FixedMessage(d.code)

\* the code part of C31 alone: it fails for an ApiError with status 0 whose
\* message speaks neither of the network nor of fetch
C31_CodeFollowsChain ==
  Handled # NoError => mapErrorToDetails(Handled).code \in ChainCodes(Handled)

\* C32: for every error value, AppErrors built by AppError.from included, each
\* boolean helper answers what the classifier's code says: isCancellationError
\* iff CANCELLED, isAuthError iff SESSION_EXPIRED, isCreditsError iff
\* INSUFFICIENT_CREDITS, isRecoverableError the classifier's recoverable flag.
C32_HelpersAgreeWithClassifier ==
  Handled # NoError =>
    LET d == mapErrorToDetails(Handled)
    IN  /\ isCancellationError(Handled) <=> d.code = "CANCELLED"
        /\ isAuthError(Handled) <=> d.code = "SESSION_EXPIRED"
        /\ isCreditsError(Handled) <=> d.code = "INSUFFICIENT_CREDITS"
        /\ isRecoverableError(Handled) = d.recoverable

\* a step that is a handleError call with a cancellation error
HandlesCancellation ==
  /\ errorHandler'.calls = errorHandler.calls + 1
  /\ errorHandler'.lastCall.op = "handleError"
  /\ isCancellationError(errorHandler'.lastCall.error)

\* C33: handleError called with a cancellation error changes nothing: the
\* error state, hasError and the pending auto-clear timer stay as they were,
\* and neither onAuthError nor onCreditsError is called.
C33_CancellationIgnored ==
  [][HandlesCancellation =>
       /\ errorHandler'.state = errorHandler.state
       /\ errorHandler'.autoClearTimeout = errorHandler.autoClearTimeout
       /\ errorHandler'.timers = errorHandler.timers
       /\ errorHandler'.onAuthError = errorHandler.onAuthError
       /\ errorHandler'.onCreditsError = errorHandler.onCreditsError]_vars

\* a cancellation error was handled while an error was shown and its
\* auto-clear timer was pending
C33_Witness ==
  /\ Handled # NoError
  /\ isCancellationError(Handled)
  /\ errorHandler.state.hasError
  /\ errorHandler.autoClearTimeout # 0
  /\ errorHandler.timers # {}

\* an error is shown that the handler clears by itself
AutoClearing ==
  /\ errorHandler.autoClearMs # 0
  /\ errorHandler.state.hasError
  /\ errorHandler.state.recoverable

\* the one timer the handler holds, due autoClearMs after the error was set
OwnTimer ==
  [id |-> errorHandler.autoClearTimeout,
   due |-> errorHandler.setAt + errorHandler.autoClearMs]

\* C35: with autoClearMs configured, a recoverable error set by setError or
\* handleError is cleared autoClearMs after it was set unless it is cleared
\* or replaced before; at most one auto-clear timer is pending; the timer of
\* an earlier error never clears a later error before the later error's own
\* autoClearMs has passed; clearError cancels the pending timer.
C35_AutoClear ==
  /\ [](/\ Cardinality(errorHandler.timers) <= 1
        /\ AutoClearing =>
             /\ errorHandler.timers = {OwnTimer}
             /\ errorHandler.now <= OwnTimer.due
        /\ errorHandler.lastCall.op = "clearError" =>
             errorHandler.timers = {} /\ errorHandler.autoClearTimeout = 0)
  /\ [][errorHandler'.lastCall.op = "timer" /\ errorHandler.state.hasError =>
          /\ errorHandler.now = errorHandler.setAt + errorHandler.autoClearMs
          /\ ~errorHandler'.state.hasError]_vars
  /\ [](AutoClearing => <>(~errorHandler.state.hasError))

\* the timer of a second error cleared it when it was due, after the timer of
\* the first error had been cancelled by the replacement
C35_Witness ==
  /\ errorHandler.lastCall.op = "timer"
  /\ errorHandler.nextTimer >= 3
  /\ errorHandler.calls = 2
  /\ ~errorHandler.state.hasError
  /\ errorHandler.setAt > 0
  /\ errorHandler.now = errorHandler.setAt + errorHandler.autoClearMs

\* the withRetry call has returned or thrown
RetrySettled == retry.pc \in {"returned", "thrown"}

\* C34: tryWithRetry reports success with the data exactly when withRetry
\* returns and failure with the error when it throws, and in every outcome
\* its attempts field is the number of times the operation was invoked.
C34_TryWithRetryAttempts ==
  RetrySettled =>
    LET t == tryWithRetry(retry)
    IN  /\ t.success <=> retry.pc = "returned"
        /\ t.success => t.data = retry.result
        /\ ~t.success => t.error = retry.result
        /\ t.attempts = retry.calls

\* C34 for the calls whose signal is never aborted: the attempts field counts
\* the invocations on first-try success, success after retries, exhaustion
\* and non-retryable failure
C34_AttemptsWithoutCancellation ==
  RetrySettled /\ ~retry.aborted => tryWithRetry(retry).attempts = retry.calls

====
